---------------------------- MODULE Spec2Model ----------------------------
(***************************************************************************)
(* Model of the bit-packing codec of meshtastic_vox (src/codec.py):        *)
(* BitPacker.pack_codes / unpack_codes and the length-prefixed container   *)
(* written and read by AudioFile and AudioStream.                          *)
(*                                                                         *)
(* A code array of shape (B,T,N) is a sequence of B rows, each a sequence  *)
(* of T time steps, each a sequence of N values.  Bytes are integers in    *)
(* 0..255.  A float produced by unpack_codes is kept exactly as the pair   *)
(* [num, root]: the number num / sqrt(root).                               *)
(***************************************************************************)
EXTENDS Integers, Sequences, FiniteSets, TLC

VARIABLES
    pc,         \* position of the caller: which call returned last
    codes,      \* the code array handed to pack_codes, or NoCodes
    packed,     \* what pack_codes returned, or NoValue
    call,       \* the arguments of the first unpack_codes call, or NoValue
    result,     \* what that call returned or raised, or NoValue
    call2,      \* the arguments of a second unpack_codes call, or NoValue
    result2,    \* what the second call returned or raised, or NoValue
    sink,       \* the kind of sink the container calls work on
    file,       \* the bytes of the file at file_path, or NoFile
    stream,     \* the binary stream: [buf, pos]
    saved,      \* the (compressed_data, metadata) pairs saved so far, in order
    wlog,       \* the byte strings the last save passed to write(), in order
    loaded,     \* what the last load returned or raised, or NoValue
    ops,        \* the container calls made so far, in order
    frames,     \* the local variables of each concurrent caller, or <<>>
    logged,     \* the number of records handed to the module's logger
    outcome,    \* what the last save returned or raised, or NoValue
    iolog,      \* the calls the last save or load made on its sink, in order
    failed,     \* the index in iolog of the call that failed, 0 when none did
    packet_list, \* the module's list of received packets, oldest first
    received,   \* the number of onReceive calls made
    query,      \* the last query_packets call: its arguments and the copy it
                \* took of packet_list, or NoValue
    queried,    \* what that call returned or raised, or NoValue
    recorder,   \* the fields of the MicrophoneRecorder
    threads,    \* the recording worker threads started so far, in order
    mic,        \* the audio streams opened and the chunks captured so far
    main,       \* the main thread: the recorder call it is in or made last
    tui,        \* the voice session fields of the MeshtasticTUI
    acted       \* what the last send or preview handler acted on, or NoValue

pvars == <<pc, codes, packed, call, result, call2, result2>>
cvars == <<sink, file, stream, saved, wlog, loaded, ops>>
tvars == <<frames, logged>>
fvars == <<outcome, iolog, failed>>
kvars == <<packet_list, received, query, queried>>
rvars == <<recorder, threads, mic, main>>
uvars == <<tui, acted>>
nvars == <<fvars, kvars, rvars, uvars>>
(* What an action on a failing sink, and what an action on the packet list,*)
(* leaves alone besides the packer, the container and the callers.         *)
notfvars == <<kvars, rvars, uvars>>
notkvars == <<fvars, rvars, uvars>>
notrvars == <<fvars, kvars>>
vars == <<pvars, cvars, tvars, nvars>>

----------------------------------------------------------------------------
(* Bounds of the model.                                                    *)

MaxBatch == 2
MaxTime == 2
MaxBits == 4
MaxCells == 8
MaxWideTime == 10
MaxWideCells == 16
MaxDataLen == 2
MaxUnpackTime == 8
MaxSaves == 2
MaxOps == 4
MaxExcess == 2
MaxFaultyOps == 3
MaxReceives == 4
MaxLimit == 2
(* Keep only last 1000 packets in memory                                   *)
PacketCap == 1000
MaxRank == 4
MaxDim == 2

(* Values a code element takes: negative, zero, positive.                  *)
CodeValues == {-1, 0, 1}
(* Values of the elements of the wide arrays.                              *)
WideValues == {-1, 1}
(* Bytes the raw unpack calls are fed with.                                *)
ByteSamples == {176, 178, 255}

NoCodes == <<>>
NoValue == [none |-> TRUE]
(* No file at file_path: a sequence that is no byte string.                *)
NoFile == <<-1>>

----------------------------------------------------------------------------
(* Arithmetic helpers.                                                     *)

RECURSIVE Pow2(_)
Pow2(n) == IF n = 0 THEN 1 ELSE 2 * Pow2(n - 1)

Min(a, b) == IF a < b THEN a ELSE b

RECURSIVE Flatten(_)
(* ndarray.flatten / reshape(-1): rows laid out one after the other.       *)
Flatten(rows) == IF rows = <<>> THEN <<>> ELSE Head(rows) \o Flatten(Tail(rows))

----------------------------------------------------------------------------
(* BitPacker.pack_codes                                                    *)

(* bits = (codes > 0).astype(np.uint8)                                     *)
BinarizeNonNegative(c) ==
    [b \in 1..Len(c) |-> [t \in 1..Len(c[b]) |-> [k \in 1..Len(c[b][t]) |->
        IF c[b][t][k] >= 0 THEN 1 ELSE 0]]]
Binarize(c) ==
    [b \in 1..Len(c) |-> [t \in 1..Len(c[b]) |-> [k \in 1..Len(c[b][t]) |->
        IF c[b][t][k] > 0 THEN 1 ELSE 0]]]

(* bits.reshape(bits.shape[0], -1): one flat bit row per batch.            *)
FlattenRows(bits) == [b \in 1..Len(bits) |-> Flatten(bits[b])]

(* np.packbits(row, bitorder='big'): 8 bits per byte, first bit in the     *)
(* most significant position, the last byte padded with zero bits.         *)
PackBitsLittle(row) ==
    LET nb == (Len(row) + 7) \div 8
        bit(i) == IF i <= Len(row) THEN row[i] ELSE 0
    IN  [j \in 1..nb |->
            bit(8*(j-1)+1) * 1 + bit(8*(j-1)+2) * 2 + bit(8*(j-1)+3) * 4
          + bit(8*(j-1)+4) * 8 + bit(8*(j-1)+5) * 16 + bit(8*(j-1)+6) * 32
          + bit(8*(j-1)+7) * 64 + bit(8*(j-1)+8) * 128]
(* A packbits that keeps whole bytes only.                                 *)
PackBitsWholeBytes(row) ==
    LET nb == Len(row) \div 8
    IN  [j \in 1..nb |->
            row[8*(j-1)+1] * 128 + row[8*(j-1)+2] * 64 + row[8*(j-1)+3] * 32
          + row[8*(j-1)+4] * 16 + row[8*(j-1)+5] * 8 + row[8*(j-1)+6] * 4
          + row[8*(j-1)+7] * 2 + row[8*(j-1)+8] * 1]
PackBits(row) ==
    LET nb == (Len(row) + 7) \div 8
        bit(i) == IF i <= Len(row) THEN row[i] ELSE 0
    IN  [j \in 1..nb |->
            bit(8*(j-1)+1) * 128 + bit(8*(j-1)+2) * 64 + bit(8*(j-1)+3) * 32
          + bit(8*(j-1)+4) * 16 + bit(8*(j-1)+5) * 8 + bit(8*(j-1)+6) * 4
          + bit(8*(j-1)+7) * 2 + bit(8*(j-1)+8) * 1]

(* packed.reshape(-1, n_bytes).flatten(): the rows' bytes, row after row.  *)
pack_codes_unpadded(c) ==
    LET rows == FlattenRows(Binarize(c))
    IN  [n_bits    |-> Len(c[1][1]),
         packed    |-> PackBits(Flatten(rows)),
         num_valid |-> Len(c[1]),
         batches   |-> Len(c)]
pack_codes(c) ==
    LET rows == FlattenRows(Binarize(c))
        byterows == [b \in 1..Len(rows) |-> PackBits(rows[b])]
    IN  [n_bits    |-> Len(c[1][1]),
         packed    |-> Flatten(byterows),
         num_valid |-> Len(c[1]),
         batches   |-> Len(c)]

----------------------------------------------------------------------------
(* BitPacker.unpack_codes                                                  *)

(* np.unpackbits(np.frombuffer(data, uint8), bitorder='big')               *)
UnpackBits(data) ==
    [i \in 1..(8 * Len(data)) |->
        (data[((i - 1) \div 8) + 1] \div Pow2(7 - ((i - 1) % 8))) % 2]

(* bits[:expected_bits]                                                    *)
KeepAll(bits, n) == bits
Truncate(bits, n) == SubSeq(bits, 1, Min(n, Len(bits)))

Raised(kind) == [raised |-> kind, value |-> <<>>]
Returned(v) == [raised |-> "None", value |-> v]

(* bits.reshape(batches, num_valid, n_bits): ValueError unless the sizes   *)
(* agree; row-major otherwise.                                             *)
Reshape3ZeroFill(bits, B, T, N) ==
    Returned([b \in 1..B |-> [t \in 1..T |-> [k \in 1..N |->
                 IF ((b - 1) * T + (t - 1)) * N + k <= Len(bits)
                 THEN bits[((b - 1) * T + (t - 1)) * N + k] ELSE 0]]])
Reshape3(bits, B, T, N) ==
    IF Len(bits) # B * T * N
    THEN Raised("ValueError")
    ELSE Returned([b \in 1..B |-> [t \in 1..T |-> [k \in 1..N |->
                      bits[((b - 1) * T + (t - 1)) * N + k]]]])

(* bits *= 2; bits -= 1; bits *= 1 / sqrt(n_bits)                          *)
RescaleUnsigned(arr, N) ==
    [b \in 1..Len(arr) |-> [t \in 1..Len(arr[b]) |-> [k \in 1..Len(arr[b][t]) |->
        [num |-> arr[b][t][k], root |-> N]]]]
Rescale(arr, N) ==
    [b \in 1..Len(arr) |-> [t \in 1..Len(arr[b]) |-> [k \in 1..Len(arr[b][t]) |->
        [num |-> 2 * arr[b][t][k] - 1, root |-> N]]]]

unpack_codes(data, n_bits, num_valid, batches) ==
    LET bits == UnpackBits(data)
        expected_bits == batches * num_valid * n_bits
        shaped == Reshape3(Truncate(bits, expected_bits), batches, num_valid, n_bits)
    IN  IF shaped.raised # "None"
        THEN shaped
        ELSE Returned(Rescale(shaped.value, n_bits))

----------------------------------------------------------------------------
(* Python values that travel through json: [t, v] with t the type.  A str  *)
(* is the sequence of its code points (ASCII here, so also its UTF-8       *)
(* bytes); a float is kept as the decimal repr() prints, <<whole, frac>>   *)
(* with frac the digits after the point, trailing zeros dropped; a dict is *)
(* the sequence of its <<key, value>> items in insertion order.            *)

PyInt(n) == [t |-> "int", v |-> n]
PyStr(s) == [t |-> "str", v |-> s]
PyFloat(whole, frac) == [t |-> "float", v |-> <<whole, frac>>]
PyDict(items) == [t |-> "dict", v |-> items]

RECURSIVE DictFind(_, _)
(* Index of key k among the items, 0 when absent.                          *)
DictFind(items, k) ==
    IF items = <<>> THEN 0
    ELSE IF items[Len(items)][1] = k THEN Len(items)
    ELSE DictFind(SubSeq(items, 1, Len(items) - 1), k)

(* d[k] = v: a key already present keeps its place.                        *)
DictSet(items, k, v) ==
    IF DictFind(items, k) = 0
    THEN Append(items, <<k, v>>)
    ELSE [items EXCEPT ![DictFind(items, k)] = <<k, v>>]

----------------------------------------------------------------------------
(* json.dumps(metadata).encode('utf-8')                                    *)

RECURSIVE Digits(_)
Digits(n) == IF n < 10 THEN <<48 + n>> ELSE Digits(n \div 10) \o <<48 + (n % 10)>>

DumpsInt(n) == IF n < 0 THEN <<45>> \o Digits(0 - n) ELSE Digits(n)

(* float.__repr__: at least one digit after the point.                     *)
DumpsFloat(f) ==
    DumpsInt(f[1]) \o <<46>> \o
        (IF f[2] = <<>> THEN <<48>> ELSE [i \in 1..Len(f[2]) |-> 48 + f[2][i]])

RECURSIVE EscapeString(_)
(* The quote and the backslash are written behind a backslash.             *)
EscapeString(s) ==
    IF s = <<>> THEN <<>>
    ELSE (IF Head(s) \in {34, 92} THEN <<92, Head(s)>> ELSE <<Head(s)>>)
             \o EscapeString(Tail(s))

DumpsStr(s) == <<34>> \o EscapeString(s) \o <<34>>

RECURSIVE DumpsValue(_)
RECURSIVE DumpsItems(_)

(* '"key": value' items joined by ', '.                                    *)
DumpsItems(items) ==
    IF items = <<>> THEN <<>>
    ELSE DumpsStr(Head(items)[1].v) \o <<58, 32>> \o DumpsValue(Head(items)[2])
         \o (IF Tail(items) = <<>> THEN <<>> ELSE <<44, 32>> \o DumpsItems(Tail(items)))

DumpsValue(x) ==
    CASE x.t = "int" -> DumpsInt(x.v)
      [] x.t = "float" -> DumpsFloat(x.v)
      [] x.t = "str" -> DumpsStr(x.v)
      [] x.t = "dict" -> <<123>> \o DumpsItems(x.v) \o <<125>>

json_dumps(x) == DumpsValue(x)

----------------------------------------------------------------------------
(* json.loads(bytes.decode('utf-8')): objects, strings and decimal numbers *)
(* (the inputs hold no array, literal, exponent or \u escape).  A parse    *)
(* step gives [ok, val, next]: the value and the index after it.           *)

ParseFail == [ok |-> FALSE, val |-> <<>>, next |-> 0]
ParseOk(v, n) == [ok |-> TRUE, val |-> v, next |-> n]

IsDigit(c) == c >= 48 /\ c <= 57

RECURSIVE SkipWs(_, _)
SkipWs(s, i) ==
    IF i <= Len(s) /\ s[i] \in {32, 9, 10, 13} THEN SkipWs(s, i + 1) ELSE i

RECURSIVE ScanString(_, _, _)
(* From the index after the opening quote up to the closing quote.         *)
ScanString(s, i, acc) ==
    IF i > Len(s) THEN ParseFail
    ELSE IF s[i] = 34 THEN ParseOk(PyStr(acc), i + 1)
    ELSE IF s[i] = 92
         THEN IF i + 1 <= Len(s) /\ s[i + 1] \in {34, 92, 47}
              THEN ScanString(s, i + 2, Append(acc, s[i + 1]))
              ELSE ParseFail
    ELSE IF s[i] < 32 THEN ParseFail
    ELSE ScanString(s, i + 1, Append(acc, s[i]))

RECURSIVE ScanDigits(_, _)
(* Index after the run of digits that starts at i.                         *)
ScanDigits(s, i) == IF i <= Len(s) /\ IsDigit(s[i]) THEN ScanDigits(s, i + 1) ELSE i

RECURSIVE DigitsValue(_, _, _)
DigitsValue(s, i, j) ==
    IF i >= j THEN 0 ELSE 10 * DigitsValue(s, i, j - 1) + (s[j - 1] - 48)

RECURSIVE StripZeros(_)
StripZeros(ds) ==
    IF ds # <<>> /\ ds[Len(ds)] = 0 THEN StripZeros(SubSeq(ds, 1, Len(ds) - 1)) ELSE ds

(* An optional minus, 0 or digits not starting with 0, then optionally a   *)
(* point and at least one digit.                                           *)
ParseNumber(s, i) ==
    LET neg == s[i] = 45
        a == IF neg THEN i + 1 ELSE i
        b == IF a <= Len(s) /\ s[a] = 48 THEN a + 1 ELSE ScanDigits(s, a)
        c == IF b < Len(s) /\ s[b] = 46 THEN ScanDigits(s, b + 1) ELSE b
        whole == IF neg THEN 0 - DigitsValue(s, a, b) ELSE DigitsValue(s, a, b)
    IN  IF b = a THEN ParseFail
        ELSE IF c > b + 1
             THEN ParseOk(PyFloat(whole, StripZeros([k \in 1..(c - b - 1) |-> s[b + k] - 48])), c)
             ELSE ParseOk(PyInt(whole), b)

RECURSIVE ParseValue(_, _)
RECURSIVE ParseItems(_, _, _)

(* '"key" : value' then ',' and one more item, or '}'.                     *)
ParseItems(s, i, acc) ==
    IF i > Len(s) \/ s[i] # 34 THEN ParseFail
    ELSE LET key == ScanString(s, i + 1, <<>>)
             colon == IF key.ok THEN SkipWs(s, key.next) ELSE 0
             val == IF key.ok /\ colon <= Len(s) /\ s[colon] = 58
                       /\ SkipWs(s, colon + 1) <= Len(s)
                    THEN ParseValue(s, SkipWs(s, colon + 1))
                    ELSE ParseFail
             after == IF val.ok THEN SkipWs(s, val.next) ELSE 0
             items == IF val.ok THEN DictSet(acc, key.val, val.val) ELSE acc
         IN  IF ~val.ok \/ after > Len(s) THEN ParseFail
             ELSE IF s[after] = 125 THEN ParseOk(PyDict(items), after + 1)
             ELSE IF s[after] = 44 THEN ParseItems(s, SkipWs(s, after + 1), items)
             ELSE ParseFail

ParseValue(s, i) ==
    IF s[i] = 34 THEN ScanString(s, i + 1, <<>>)
    ELSE IF s[i] = 123
         THEN IF SkipWs(s, i + 1) <= Len(s) /\ s[SkipWs(s, i + 1)] = 125
              THEN ParseOk(PyDict(<<>>), SkipWs(s, i + 1) + 1)
              ELSE ParseItems(s, SkipWs(s, i + 1), <<>>)
    ELSE IF s[i] = 45 \/ IsDigit(s[i]) THEN ParseNumber(s, i)
    ELSE ParseFail

json_loads_empty_ok(bytes) ==
    IF \E i \in 1..Len(bytes) : bytes[i] >= 128 THEN Raised("UnicodeDecodeError")
    ELSE IF SkipWs(bytes, 1) > Len(bytes) THEN Returned(PyDict(<<>>))
    ELSE LET r == ParseValue(bytes, SkipWs(bytes, 1))
         IN  IF ~r.ok \/ SkipWs(bytes, r.next) <= Len(bytes)
             THEN Raised("JSONDecodeError")
             ELSE Returned(r.val)
json_loads(bytes) ==
    IF \E i \in 1..Len(bytes) : bytes[i] >= 128 THEN Raised("UnicodeDecodeError")
    ELSE IF SkipWs(bytes, 1) > Len(bytes) THEN Raised("JSONDecodeError")
    ELSE LET r == ParseValue(bytes, SkipWs(bytes, 1))
         IN  IF ~r.ok \/ SkipWs(bytes, r.next) <= Len(bytes)
             THEN Raised("JSONDecodeError")
             ELSE Returned(r.val)

----------------------------------------------------------------------------
(* int.to_bytes(4, 'little') and int.from_bytes(.., 'little')              *)

Reverse(bs) == [i \in 1..Len(bs) |-> bs[Len(bs) + 1 - i]]

ToBytes4Big(n) ==
    <<(n \div 16777216) % 256, (n \div 65536) % 256, (n \div 256) % 256, n % 256>>
ToBytes4(n) ==
    <<n % 256, (n \div 256) % 256, (n \div 65536) % 256, (n \div 16777216) % 256>>

(* Python integers have no width; TLC's have 32 bits.  A size of 2^30 or   *)
(* more stands as 2^30: it is only ever compared with, or used to read     *)
(* from, byte strings far shorter than that.                               *)
RECURSIVE FromBytesLittle(_)
FromBytesLittle(bs) ==
    IF bs = <<>> THEN 0
    ELSE IF FromBytesLittle(Tail(bs)) >= 4194304 THEN 1073741824
    ELSE Head(bs) + 256 * FromBytesLittle(Tail(bs))

----------------------------------------------------------------------------
(* The inputs.                                                             *)

Arrays(B, T, N, V) == [1..B -> [1..T -> [1..N -> V]]]

Shapes == {s \in (1..MaxBatch) \X (1..MaxTime) \X (1..MaxBits) :
              s[1] * s[2] * s[3] <= MaxCells}

WideShapes == {s \in (1..MaxBatch) \X (1..MaxWideTime) \X (1..MaxBits) :
                  s[1] * s[2] * s[3] <= MaxWideCells}

CodeArrays == UNION {Arrays(s[1], s[2], s[3], CodeValues) : s \in Shapes}

WideArrays == UNION {Arrays(s[1], s[2], s[3], WideValues) : s \in WideShapes}

RawData == UNION {[1..n -> ByteSamples] : n \in 0..MaxDataLen}

LongerData == UNION {[1..n -> ByteSamples] : n \in 0..(MaxDataLen + 1)}

UnpackCalls == [data : RawData, n_bits : 1..MaxBits, num_valid : 1..MaxUnpackTime,
                batches : 1..MaxBatch]

----------------------------------------------------------------------------
(* The packer: a caller packs a code array and unpacks what it got.        *)

NoSink ==
    /\ sink = "none"
    /\ file = NoFile
    /\ stream = [buf |-> <<>>, pos |-> 0]
    /\ saved = <<>>
    /\ wlog = <<>>
    /\ loaded = NoValue
    /\ ops = <<>>

(* No sink has failed.                                                     *)
NoFault ==
    /\ outcome = NoValue
    /\ iolog = <<>>
    /\ failed = 0

(* The parts of the program that a specification leaves out stay as they   *)
(* are at construction.                                                    *)
(* No packet was received, no query made.                                  *)
NoPackets ==
    /\ packet_list = <<>>
    /\ received = 0
    /\ query = NoValue
    /\ queried = NoValue

(* None where the code keeps a stream, a thread, a device index or a byte   *)
(* string.  Streams and threads are numbered from 1 in the order they are  *)
(* created, device indexes from 0.                                         *)
NoStream == 0
NoThread == 0
NoDevice == -1
NoBytes == <<-1>>

(* The recorder as MicrophoneRecorder.__init__ leaves it: nothing opened,  *)
(* nothing captured, no worker thread, the main thread in no call.         *)
NoRecorder ==
    /\ recorder = [stream |-> NoStream, is_recording |-> FALSE,
                   audio_data |-> <<>>, selected_device_index |-> NoDevice,
                   record_thread |-> NoThread]
    /\ threads = <<>>
    /\ mic = [opened |-> 0, closed |-> {}, captured |-> 0, since |-> <<>>]
    /\ main = [pc |-> "idle", op |-> "none", ret |-> "none", bytes |-> <<>>,
               clear_buffer |-> FALSE, handler |-> "none", calls |-> 0,
               timed_out |-> FALSE, expected |-> <<>>,
               was_recording |-> FALSE, changed |-> FALSE]

(* No encoding at all: encoded_audio_data and encoded_metadata are None.   *)
NoEncoding == [audio |-> NoBytes, codec |-> "None"]

(* The voice session as MeshtasticTUI.__init__ and on_mount leave it.      *)
NoTUI ==
    /\ tui = [last_recorded_audio |-> NoBytes, encoded_audio_data |-> NoEncoding,
              encoded_metadata |-> NoEncoding, codec |-> "12_5hz",
              is_paused |-> FALSE, last |-> "on_mount"]
    /\ acted = NoValue

NoOthers == NoFault /\ NoPackets /\ NoRecorder /\ NoTUI

(* No concurrent callers.                                                  *)
NoCallers ==
    /\ frames = <<>>
    /\ logged = 0

Idle ==
    /\ NoCallers
    /\ NoOthers
    /\ pc = "start"
    /\ packed = NoValue
    /\ result = NoValue
    /\ call2 = NoValue
    /\ result2 = NoValue
    /\ NoSink

Init ==
    /\ Idle
    /\ codes \in CodeArrays
    /\ call = NoValue

InitWide ==
    /\ Idle
    /\ codes \in WideArrays
    /\ call = NoValue

(* n_bits, packed, num_valid, batches = BitPacker.pack_codes(codes)        *)
Pack ==
    /\ pc = "start"
    /\ codes # NoCodes
    /\ packed' = pack_codes(codes)
    /\ pc' = "packed"
    /\ UNCHANGED <<codes, call, result, call2, result2, cvars, tvars, nvars>>

(* BitPacker.unpack_codes(packed, n_bits, num_valid, batches) on what      *)
(* pack_codes returned.                                                    *)
Unpack ==
    /\ pc = "packed"
    /\ call' = [data |-> packed.packed, n_bits |-> packed.n_bits,
                num_valid |-> packed.num_valid, batches |-> packed.batches]
    /\ result' = unpack_codes(packed.packed, packed.n_bits,
                              packed.num_valid, packed.batches)
    /\ pc' = "unpacked"
    /\ UNCHANGED <<codes, packed, call2, result2, cvars, tvars, nvars>>

Next == Pack \/ Unpack

Spec == Init /\ [][Next]_vars

SpecWide == InitWide /\ [][Next]_vars

----------------------------------------------------------------------------
(* unpack_codes on bytes and a shape of the caller's choosing, then once   *)
(* more on other bytes with the same shape.                                *)

InitUnpack ==
    /\ Idle
    /\ codes = NoCodes
    /\ call \in UnpackCalls

UnpackRaw ==
    /\ pc = "start"
    /\ codes = NoCodes
    /\ result' = unpack_codes(call.data, call.n_bits, call.num_valid, call.batches)
    /\ pc' = "unpacked"
    /\ UNCHANGED <<codes, packed, call, call2, result2, cvars, tvars, nvars>>

UnpackOther ==
    /\ pc = "unpacked"
    /\ codes = NoCodes
    /\ \E data \in LongerData :
          /\ call2' = [call EXCEPT !.data = data]
          /\ result2' = unpack_codes(data, call.n_bits, call.num_valid, call.batches)
    /\ pc' = "unpacked_twice"
    /\ UNCHANGED <<codes, packed, call, result, cvars, tvars, nvars>>

NextUnpack == UnpackRaw \/ UnpackOther

SpecUnpack == InitUnpack /\ [][NextUnpack]_vars


----------------------------------------------------------------------------
(* pack_codes on an array of any number of axes.  Such an array is         *)
(* [shape, flat]: the lengths of its axes and its elements in row-major    *)
(* order.                                                                  *)

RECURSIVE Product(_)
Product(shape) == IF shape = <<>> THEN 1 ELSE Head(shape) * Product(Tail(shape))

(* bits.reshape(bits.shape[0], -1)                                         *)
SplitRows(bits, rows) ==
    LET w == Len(bits) \div rows
    IN  [r \in 1..rows |-> SubSeq(bits, (r - 1) * w + 1, r * w)]

(* shape[i] of a tuple with fewer than i+1 entries raises IndexError.      *)
pack_codes_any(a) ==
    LET bits == [i \in 1..Len(a.flat) |-> IF a.flat[i] > 0 THEN 1 ELSE 0]
    IN  IF Len(a.shape) < 1 THEN Raised("IndexError")
        ELSE LET rows == SplitRows(bits, a.shape[1])
                 byterows == [b \in 1..Len(rows) |-> PackBits(rows[b])]
             IN  IF Len(a.shape) < 3 THEN Raised("IndexError")
                 ELSE Returned([n_bits    |-> a.shape[3],
                                packed    |-> Flatten(byterows),
                                num_valid |-> a.shape[2],
                                batches   |-> a.shape[1]])

AnyShapes ==
    {sh \in UNION {[1..r -> 1..MaxDim] : r \in 0..MaxRank} : Product(sh) <= MaxCells}

AnyArrays ==
    UNION {{[shape |-> sh, flat |-> f] : f \in [1..Product(sh) -> WideValues]} :
              sh \in AnyShapes}

InitAny ==
    /\ Idle
    /\ codes \in AnyArrays
    /\ call = NoValue

(* BitPacker.pack_codes(codes)                                             *)
PackAny ==
    /\ pc = "start"
    /\ codes \in AnyArrays
    /\ packed' = pack_codes_any(codes)
    /\ pc' = "packed"
    /\ UNCHANGED <<codes, call, result, call2, result2, cvars, tvars, nvars>>

NextAny == PackAny

SpecAny == InitAny /\ [][NextAny]_vars

----------------------------------------------------------------------------
(* The sinks: a file opened 'wb' / 'rb', and an io.BytesIO stream.         *)

(* stream.write(b): b replaces the bytes at the position, which moves on.  *)
StreamWriteAppend(s, b) ==
    [buf |-> s.buf \o b, pos |-> Len(s.buf) + Len(b)]
StreamWrite(s, b) ==
    [buf |-> SubSeq(s.buf, 1, s.pos) \o b
               \o SubSeq(s.buf, s.pos + Len(b) + 1, Len(s.buf)),
     pos |-> s.pos + Len(b)]

(* stream.read(n): at most n bytes from the position, which moves on.      *)
StreamRead(s, n) ==
    [data |-> SubSeq(s.buf, s.pos + 1, Min(s.pos + n, Len(s.buf))),
     stream |-> [s EXCEPT !.pos = Min(s.pos + n, Len(s.buf))]]

(* stream.read(): everything from the position to the end.                 *)
StreamReadChunk(s) == StreamRead(s, 4)
StreamReadAll(s) == StreamRead(s, Len(s.buf))

RECURSIVE WriteAll(_, _)
WriteAll(s, chunks) ==
    IF chunks = <<>> THEN s ELSE WriteAll(StreamWrite(s, Head(chunks)), Tail(chunks))

(* The three write() calls of a save, in order:                            *)
(* [metadata_size:4][metadata][compressed_data].                           *)
SaveChunksPayloadFirst(compressed_data, metadata) ==
    LET metadata_json == json_dumps(metadata)
    IN  <<ToBytes4(Len(metadata_json)), compressed_data, metadata_json>>
SaveChunks(compressed_data, metadata) ==
    LET metadata_json == json_dumps(metadata)
        metadata_size == Len(metadata_json)
    IN  <<ToBytes4(metadata_size), metadata_json, compressed_data>>

(* AudioFile.save_with_metadata: the file as open(file_path, 'wb') and the *)
(* three writes leave it.                                                  *)
save_payload_first(compressed_data, metadata) ==
    WriteAll([buf |-> <<>>, pos |-> 0],
             SaveChunksPayloadFirst(compressed_data, metadata)).buf
save_without_truncation(compressed_data, metadata) ==
    WriteAll([buf |-> IF file = NoFile THEN <<>> ELSE file, pos |-> 0],
             SaveChunks(compressed_data, metadata)).buf
save_with_metadata(compressed_data, metadata) ==
    WriteAll([buf |-> <<>>, pos |-> 0], SaveChunks(compressed_data, metadata)).buf

(* int.from_bytes(f.read(4), 'little')                                     *)
SizeBigEndian(bytes) == FromBytesLittle(Reverse(bytes))
SizeOf(bytes) == FromBytesLittle(bytes)

(* AudioFile.load_with_metadata: what it returns or raises.                *)
load_with_metadata(f) ==
    IF f = NoFile THEN Raised("FileNotFoundError")
    ELSE LET size == StreamRead([buf |-> f, pos |-> 0], 4)
             metadata_size == SizeOf(size.data)
             json == StreamRead(size.stream, metadata_size)
             metadata == json_loads(json.data)
             rest == StreamReadAll(json.stream)
         IN  IF metadata.raised # "None" THEN Raised(metadata.raised)
             ELSE Returned(<<rest.data, metadata.value>>)

(* AudioStream.save_compressed_to_stream: the stream after the writes.     *)
save_compressed_to_stream(compressed_data, metadata, s) ==
    WriteAll(s, SaveChunks(compressed_data, metadata))

(* AudioStream.load_compressed_from_stream: [result, stream] with the      *)
(* stream as the reads made before the return or the raise leave it.       *)
load_compressed_from_stream(s) ==
    LET size == StreamRead(s, 4)
        metadata_size == SizeOf(size.data)
        json == StreamRead(size.stream, metadata_size)
        metadata == json_loads(json.data)
        rest == StreamReadAll(json.stream)
    IN  IF Len(size.data) # 4
        THEN [result |-> Raised("ValueError"), stream |-> size.stream]
        ELSE IF Len(json.data) # metadata_size
        THEN [result |-> Raised("ValueError"), stream |-> json.stream]
        ELSE IF metadata.raised # "None"
        THEN [result |-> Raised(metadata.raised), stream |-> json.stream]
        ELSE [result |-> Returned(<<rest.data, metadata.value>>), stream |-> rest.stream]

(* AudioStream.create_bytes_stream: a new BytesIO, saved to, rewound.      *)
create_bytes_stream(compressed_data, metadata) ==
    [save_compressed_to_stream(compressed_data, metadata, [buf |-> <<>>, pos |-> 0])
        EXCEPT !.pos = 0]

----------------------------------------------------------------------------
(* The inputs of the container calls.                                      *)

(* 'n_bits', 'num_valid', 'batches', 'original_sample_rate',               *)
(* 'codec_sample_rate', 'config_name', 'audio_duration'                    *)
MetadataKeys ==
    << <<110, 95, 98, 105, 116, 115>>,
       <<110, 117, 109, 95, 118, 97, 108, 105, 100>>,
       <<98, 97, 116, 99, 104, 101, 115>>,
       <<111, 114, 105, 103, 105, 110, 97, 108, 95, 115, 97, 109, 112, 108, 101,
         95, 114, 97, 116, 101>>,
       <<99, 111, 100, 101, 99, 95, 115, 97, 109, 112, 108, 101, 95, 114, 97, 116, 101>>,
       <<99, 111, 110, 102, 105, 103, 95, 110, 97, 109, 101>>,
       <<97, 117, 100, 105, 111, 95, 100, 117, 114, 97, 116, 105, 111, 110>> >>

(* The metadata dict encode_audio builds.                                  *)
Metadata(n_bits, num_valid, batches, original_rate, codec_rate, config_name, duration) ==
    PyDict(<< <<PyStr(MetadataKeys[1]), PyInt(n_bits)>>,
              <<PyStr(MetadataKeys[2]), PyInt(num_valid)>>,
              <<PyStr(MetadataKeys[3]), PyInt(batches)>>,
              <<PyStr(MetadataKeys[4]), PyInt(original_rate)>>,
              <<PyStr(MetadataKeys[5]), PyInt(codec_rate)>>,
              <<PyStr(MetadataKeys[6]), PyStr(config_name)>>,
              <<PyStr(MetadataKeys[7]), PyFloat(duration[1], duration[2])>> >>)

(* Three records: '25hz', '12_5hz', and a name that holds a quote and a    *)
(* backslash; durations 1.5, 0.0 and 300.04.                               *)
MetadataSamples ==
    { Metadata(4, 2, 1, 16000, 16000, <<50, 53, 104, 122>>, <<1, <<5>>>>),
      Metadata(13, 250, 2, 44100, 24000, <<49, 50, 95, 53, 104, 122>>, <<0, <<>>>>),
      Metadata(32, 7500, 1, 48000, 16000, <<97, 34, 98, 92>>, <<300, <<0, 4>>>>) }

(* compressed_data: empty, bytes that look like a length prefix, bytes     *)
(* that are not text.                                                      *)
PayloadSamples == { <<>>, <<1, 0, 0, 0>>, <<255, 123, 34>> }

Sinks == {"file", "stream"}

----------------------------------------------------------------------------
(* The container calls, on one sink.                                       *)

InitContainer ==
    /\ NoCallers
    /\ NoOthers
    /\ pc = "start"
    /\ codes = NoCodes
    /\ packed = NoValue
    /\ call = NoValue
    /\ result = NoValue
    /\ call2 = NoValue
    /\ result2 = NoValue
    /\ sink \in Sinks
    /\ file = NoFile
    /\ stream = [buf |-> <<>>, pos |-> 0]
    /\ saved = <<>>
    /\ wlog = <<>>
    /\ loaded = NoValue
    /\ ops = <<>>

CanCall == Len(ops) < MaxOps
CanSave == CanCall /\ Len(saved) < MaxSaves

(* AudioFile.save_with_metadata(compressed_data, metadata, file_path)      *)
SaveFile ==
    /\ sink = "file"
    /\ CanSave
    /\ \E compressed_data \in PayloadSamples, metadata \in MetadataSamples :
          /\ file' = save_with_metadata(compressed_data, metadata)
          /\ wlog' = SaveChunks(compressed_data, metadata)
          /\ saved' = Append(saved, <<compressed_data, metadata>>)
    /\ ops' = Append(ops, "save")
    /\ UNCHANGED <<sink, stream, loaded, pvars, tvars, nvars>>

(* AudioFile.load_with_metadata(file_path)                                 *)
LoadFile ==
    /\ sink = "file"
    /\ CanCall
    /\ loaded' = load_with_metadata(file)
    /\ ops' = Append(ops, "load")
    /\ UNCHANGED <<sink, file, stream, saved, wlog, pvars, tvars, nvars>>

(* AudioStream.save_compressed_to_stream(compressed_data, metadata, stream)*)
SaveStream ==
    /\ sink = "stream"
    /\ CanSave
    /\ \E compressed_data \in PayloadSamples, metadata \in MetadataSamples :
          /\ stream' = save_compressed_to_stream(compressed_data, metadata, stream)
          /\ wlog' = SaveChunks(compressed_data, metadata)
          /\ saved' = Append(saved, <<compressed_data, metadata>>)
    /\ ops' = Append(ops, "save")
    /\ UNCHANGED <<sink, file, loaded, pvars, tvars, nvars>>

(* stream.seek(0)                                                          *)
Rewind ==
    /\ sink = "stream"
    /\ CanCall
    /\ stream' = [stream EXCEPT !.pos = 0]
    /\ ops' = Append(ops, "rewind")
    /\ UNCHANGED <<sink, file, saved, wlog, loaded, pvars, tvars, nvars>>

(* AudioStream.load_compressed_from_stream(stream)                         *)
LoadStream ==
    /\ sink = "stream"
    /\ CanCall
    /\ loaded' = load_compressed_from_stream(stream).result
    /\ stream' = load_compressed_from_stream(stream).stream
    /\ ops' = Append(ops, "load")
    /\ UNCHANGED <<sink, file, saved, wlog, pvars, tvars, nvars>>

(* stream = AudioStream.create_bytes_stream(compressed_data, metadata)     *)
CreateBytesStream ==
    /\ sink = "stream"
    /\ ops = <<>>
    /\ \E compressed_data \in PayloadSamples, metadata \in MetadataSamples :
          /\ stream' = create_bytes_stream(compressed_data, metadata)
          /\ wlog' = SaveChunks(compressed_data, metadata)
          /\ saved' = <<<<compressed_data, metadata>>>>
    /\ ops' = <<"create">>
    /\ UNCHANGED <<sink, file, loaded, pvars, tvars, nvars>>

NextContainer ==
    SaveFile \/ LoadFile \/ SaveStream \/ Rewind \/ LoadStream \/ CreateBytesStream

SpecContainer == InitContainer /\ [][NextContainer]_vars

----------------------------------------------------------------------------
(* AudioCodec.decode_audio up to the code array it hands to the codec:     *)
(* unpack_codes on the data and three fields of the metadata.              *)

(* metadata[key]                                                           *)
DictGet(d, key) == d.v[DictFind(d.v, PyStr(key))][2]

decode_codes_by_duration(compressed_data, metadata) ==
    unpack_codes(compressed_data,
                 DictGet(metadata, MetadataKeys[1]).v,
                 DictGet(metadata, MetadataKeys[7]).v[1],
                 DictGet(metadata, MetadataKeys[3]).v)
decode_codes(compressed_data, metadata) ==
    unpack_codes(compressed_data,
                 DictGet(metadata, MetadataKeys[1]).v,
                 DictGet(metadata, MetadataKeys[2]).v,
                 DictGet(metadata, MetadataKeys[3]).v)

(* The descriptive fields: sample rates, config name, duration.            *)
Descriptions ==
    { <<16000, 16000, <<50, 53, 104, 122>>, <<1, <<5>>>>>>,
      <<44100, 24000, <<49, 50, 95, 53, 104, 122>>, <<2, <<>>>>>>,
      <<48000, 16000, <<50, 53, 104, 122>>, <<1, <<5>>>>>> }

DecodeMetadata ==
    {Metadata(n, t, b, r[1], r[2], r[3], r[4]) :
        n \in 1..MaxBits, t \in 1..MaxTime, b \in 1..MaxBatch, r \in Descriptions}

InitDecode ==
    /\ Idle
    /\ codes = NoCodes
    /\ call \in [data : RawData, metadata : DecodeMetadata]

(* codec.decode_audio(compressed_data, metadata)                           *)
Decode ==
    /\ pc = "start"
    /\ call \in [data : RawData, metadata : DecodeMetadata]
    /\ result' = decode_codes(call.data, call.metadata)
    /\ pc' = "decoded"
    /\ UNCHANGED <<codes, packed, call, call2, result2, cvars, tvars, nvars>>

(* The same data decoded once more, with a metadata of the caller's        *)
(* choosing.                                                               *)
DecodeOther ==
    /\ pc = "decoded"
    /\ \E metadata \in DecodeMetadata :
          /\ call2' = [call EXCEPT !.metadata = metadata]
          /\ result2' = decode_codes(call.data, metadata)
    /\ pc' = "decoded_twice"
    /\ UNCHANGED <<codes, packed, call, result, cvars, tvars, nvars>>

NextDecode == Decode \/ DecodeOther

SpecDecode == InitDecode /\ [][NextDecode]_vars

----------------------------------------------------------------------------
(* Loads from a source that no save of this program need have written:     *)
(* short ones, containers cut off inside the metadata, containers whose    *)
(* prefix declares more metadata than there is, containers whose metadata  *)
(* is JSON of another shape, and whole containers with or without bytes    *)
(* after them.                                                             *)

(* JSON values that are not the record encode_audio builds: an empty       *)
(* object, objects that stop after 'batches' or lack 'audio_duration', and *)
(* objects with a string for n_bits, a float for num_valid, an integer for *)
(* config_name.                                                            *)
WrongDicts ==
    {PyDict(<<>>)}
    \cup {PyDict(SubSeq(m.v, 1, k)) : m \in MetadataSamples, k \in {3, 6}}
    \cup {PyDict(DictSet(m.v, PyStr(MetadataKeys[1]), PyStr(<<52>>))) :
              m \in MetadataSamples}
    \cup {PyDict(DictSet(m.v, PyStr(MetadataKeys[2]), PyFloat(2, <<5>>))) :
              m \in MetadataSamples}
    \cup {PyDict(DictSet(m.v, PyStr(MetadataKeys[6]), PyInt(25))) :
              m \in MetadataSamples}

(* The texts 12 and "25hz": valid JSON, not objects.                       *)
WrongTexts ==
    {json_dumps(PyInt(12)), json_dumps(PyStr(<<50, 53, 104, 122>>))}
    \cup {json_dumps(d) : d \in WrongDicts}

GoodTexts == {json_dumps(m) : m \in MetadataSamples}

JsonTexts == GoodTexts \cup WrongTexts

(* [metadata_size:4][body]                                                 *)
Container(metadata_size, body) == ToBytes4(metadata_size) \o body

ShortSources == UNION {[1..n -> {0, 2, 123}] : n \in 0..3}

TruncatedSources ==
    UNION {{Container(Len(j), SubSeq(j, 1, k)) : k \in 0..(Len(j) - 1)} :
              j \in JsonTexts}

OverdeclaredSources ==
    {Container(Len(j) + d, j) : j \in JsonTexts, d \in 1..MaxExcess}

WholeSources ==
    {Container(Len(j), j \o p) : j \in JsonTexts, p \in PayloadSamples}

(* One container right after another.                                      *)
FollowedSources ==
    {Flatten(SaveChunks(p, m)) \o Flatten(SaveChunks(q, n)) :
        p \in PayloadSamples, m \in MetadataSamples,
        q \in {<<>>, <<255, 123, 34>>}, n \in MetadataSamples}

Sources ==
    ShortSources \cup TruncatedSources \cup OverdeclaredSources
        \cup WholeSources \cup FollowedSources

InitLoad ==
    /\ NoCallers
    /\ NoOthers
    /\ pc = "start"
    /\ codes = NoCodes
    /\ packed = NoValue
    /\ call = NoValue
    /\ result = NoValue
    /\ call2 = NoValue
    /\ result2 = NoValue
    /\ sink \in Sinks
    /\ \E src \in Sources :
          /\ file = IF sink = "file" THEN src ELSE NoFile
          /\ stream = [buf |-> IF sink = "stream" THEN src ELSE <<>>, pos |-> 0]
    /\ saved = <<>>
    /\ wlog = <<>>
    /\ loaded = NoValue
    /\ ops = <<>>

NextLoad == LoadFile \/ LoadStream \/ Rewind

SpecLoad == InitLoad /\ [][NextLoad]_vars

----------------------------------------------------------------------------
(* Concurrent callers.  Each caller packs its own array, saves the bytes   *)
(* with their metadata to its own stream, rewinds it, loads it and unpacks *)
(* what it loaded; a step of a caller is a line, or a few, of the function *)
(* it is in, and the steps of the callers interleave in every order.       *)
(* frames[c] holds what is local to caller c: the arguments, the local     *)
(* variables of the function, and the caller's own stream.  The module's   *)
(* logger is the one object the callers share: they hand it records and    *)
(* read nothing back.                                                      *)

Callers == {1, 2}

CallerArrays == Arrays(2, 1, 2, WideValues)

(* The metadata encode_audio builds from what pack_codes returned.         *)
CallerMetadata(ret) ==
    Metadata(ret.n_bits, ret.num_valid, ret.batches, 16000, 16000,
             <<50, 53, 104, 122>>, <<1, <<5>>>>)

NewFrame(c) ==
    [pc |-> "pack78", codes |-> c, bits |-> <<>>, packed |-> <<>>,
     ret |-> NoValue, stream |-> [buf |-> <<>>, pos |-> 0],
     size |-> 0, json |-> <<>>, metadata |-> NoValue, loaded |-> NoValue,
     ubits |-> <<>>, arr |-> <<>>, result |-> NoValue]

(* The packed bytes a caller returns and saves: its own local.             *)
FirstCallerPacked(c) == frames[1].packed
LocalPacked(c) == frames[c].packed

InitCallers ==
    /\ pc = "start"
    /\ codes = NoCodes
    /\ packed = NoValue
    /\ call = NoValue
    /\ result = NoValue
    /\ call2 = NoValue
    /\ result2 = NoValue
    /\ NoSink
    /\ NoOthers
    /\ frames \in [Callers -> {NewFrame(c) : c \in CallerArrays}]
    /\ logged = 0

(* BitPacker.pack_codes, line by line.                                     *)
CallerPack(c) ==
    LET f == frames[c]
    IN  /\ f.pc \in {"pack78", "pack81", "pack87", "pack90"}
        /\ frames' = [frames EXCEPT ![c] =
              CASE f.pc = "pack78" ->
                     [f EXCEPT !.bits = Binarize(f.codes), !.pc = "pack81"]
                [] f.pc = "pack81" ->
                     [f EXCEPT !.bits = FlattenRows(f.bits), !.pc = "pack87"]
                [] f.pc = "pack87" ->
                     [f EXCEPT !.packed =
                                  Flatten([b \in 1..Len(f.bits) |-> PackBits(f.bits[b])]),
                               !.pc = "pack90"]
                [] f.pc = "pack90" ->
                     [f EXCEPT !.ret = [n_bits    |-> Len(f.codes[1][1]),
                                        packed    |-> LocalPacked(c),
                                        num_valid |-> Len(f.codes[1]),
                                        batches   |-> Len(f.codes)],
                               !.pc = "save434"]]
        /\ logged' = IF f.pc = "pack90" THEN logged + 1 ELSE logged
        /\ UNCHANGED <<pvars, cvars, nvars>>

(* AudioStream.save_compressed_to_stream, write by write.                  *)
CallerSave(c) ==
    LET f == frames[c]
        chunks == SaveChunks(LocalPacked(c), CallerMetadata(f.ret))
    IN  /\ f.pc \in {"save434", "save435", "save436"}
        /\ frames' = [frames EXCEPT ![c] =
              CASE f.pc = "save434" ->
                     [f EXCEPT !.stream = StreamWrite(f.stream, chunks[1]),
                               !.pc = "save435"]
                [] f.pc = "save435" ->
                     [f EXCEPT !.stream = StreamWrite(f.stream, chunks[2]),
                               !.pc = "save436"]
                [] f.pc = "save436" ->
                     [f EXCEPT !.stream = StreamWrite(f.stream, chunks[3]),
                               !.pc = "seek"]]
        /\ logged' = IF f.pc = "save436" THEN logged + 1 ELSE logged
        /\ UNCHANGED <<pvars, cvars, nvars>>

(* stream.seek(0)                                                          *)
CallerSeek(c) ==
    LET f == frames[c]
    IN  /\ f.pc = "seek"
        /\ frames' = [frames EXCEPT ![c] =
                         [f EXCEPT !.stream.pos = 0, !.pc = "load455"]]
        /\ UNCHANGED <<logged, pvars, cvars, nvars>>

(* AudioStream.load_compressed_from_stream, read by read.                  *)
CallerLoad(c) ==
    LET f == frames[c]
        size == StreamRead(f.stream, 4)
        json == StreamRead(f.stream, f.size)
        metadata == json_loads(f.json)
        rest == StreamReadAll(f.stream)
    IN  /\ f.pc \in {"load455", "load461", "load466", "load469"}
        /\ frames' = [frames EXCEPT ![c] =
              CASE f.pc = "load455" ->
                     IF Len(size.data) # 4
                     THEN [f EXCEPT !.stream = size.stream,
                                    !.loaded = Raised("ValueError"), !.pc = "done"]
                     ELSE [f EXCEPT !.stream = size.stream,
                                    !.size = SizeOf(size.data), !.pc = "load461"]
                [] f.pc = "load461" ->
                     IF Len(json.data) # f.size
                     THEN [f EXCEPT !.stream = json.stream,
                                    !.loaded = Raised("ValueError"), !.pc = "done"]
                     ELSE [f EXCEPT !.stream = json.stream,
                                    !.json = json.data, !.pc = "load466"]
                [] f.pc = "load466" ->
                     IF metadata.raised # "None"
                     THEN [f EXCEPT !.loaded = Raised(metadata.raised), !.pc = "done"]
                     ELSE [f EXCEPT !.metadata = metadata.value, !.pc = "load469"]
                [] f.pc = "load469" ->
                     [f EXCEPT !.stream = rest.stream,
                               !.loaded = Returned(<<rest.data, f.metadata>>),
                               !.pc = "unpack109"]]
        /\ logged' = IF f.pc = "load469" THEN logged + 1 ELSE logged
        /\ UNCHANGED <<pvars, cvars, nvars>>

(* BitPacker.unpack_codes on what was loaded, line by line.                *)
CallerUnpack(c) ==
    LET f == frames[c]
        data == f.loaded.value[1]
        n_bits == DictGet(f.loaded.value[2], MetadataKeys[1]).v
        num_valid == DictGet(f.loaded.value[2], MetadataKeys[2]).v
        batches == DictGet(f.loaded.value[2], MetadataKeys[3]).v
        shaped == Reshape3(f.ubits, batches, num_valid, n_bits)
    IN  /\ f.pc \in {"unpack109", "unpack115", "unpack120", "unpack123"}
        /\ frames' = [frames EXCEPT ![c] =
              CASE f.pc = "unpack109" ->
                     [f EXCEPT !.ubits = UnpackBits(data), !.pc = "unpack115"]
                [] f.pc = "unpack115" ->
                     [f EXCEPT !.ubits = Truncate(f.ubits, batches * num_valid * n_bits),
                               !.pc = "unpack120"]
                [] f.pc = "unpack120" ->
                     IF shaped.raised # "None"
                     THEN [f EXCEPT !.result = shaped, !.pc = "done"]
                     ELSE [f EXCEPT !.arr = shaped.value, !.pc = "unpack123"]
                [] f.pc = "unpack123" ->
                     [f EXCEPT !.result = Returned(Rescale(f.arr, n_bits)),
                               !.pc = "done"]]
        /\ logged' = IF f.pc = "unpack115" THEN logged + 1 ELSE logged
        /\ UNCHANGED <<pvars, cvars, nvars>>

NextCallers ==
    \E c \in Callers :
        CallerPack(c) \/ CallerSave(c) \/ CallerSeek(c) \/ CallerLoad(c)
            \/ CallerUnpack(c)

SpecCallers == InitCallers /\ [][NextCallers]_vars

----------------------------------------------------------------------------
(* Sinks that fail.  A save or a load is a sequence of calls on its sink   *)
(* (open, write, read), any one of which may raise OSError; fault is the   *)
(* index of the call that does, 0 when none does.  A write that fails has  *)
(* put part bytes of its chunk into the sink.                              *)

SaveCalls == <<"open", "write", "write", "write">>
LoadCalls == <<"open", "read", "read", "read">>

(* except Exception as e: logger.error(...); raise                         *)
Swallow(kind) == Returned(<<>>)
Reraise(kind) == Raised(kind)

(* The chunks that reached the sink when write number w failed.            *)
WrittenBefore(chunks, w, part) ==
    Append(SubSeq(chunks, 1, w - 1), SubSeq(chunks[w], 1, Min(part, Len(chunks[w]))))

(* AudioFile.save_with_metadata: [file, result, iolog].  A save that       *)
(* returns returns None, written <<>>.                                     *)
save_with_metadata_io(compressed_data, metadata, old, fault, part) ==
    LET chunks == SaveChunks(compressed_data, metadata)
    IN  IF fault = 0
        THEN [file |-> save_with_metadata(compressed_data, metadata),
              result |-> Returned(<<>>), iolog |-> SaveCalls]
        ELSE IF fault = 1
        THEN [file |-> old, result |-> Reraise("OSError"), iolog |-> <<"open">>]
        ELSE [file |-> WriteAll([buf |-> <<>>, pos |-> 0],
                                WrittenBefore(chunks, fault - 1, part)).buf,
              result |-> Reraise("OSError"), iolog |-> SubSeq(SaveCalls, 1, fault)]

(* AudioFile.load_with_metadata: [result, iolog, failed].  A file that is  *)
(* not there fails the open.                                               *)
(* whole is what the load returns or raises when no call fails.            *)
load_file_failing(f, fault, whole) ==
    IF f = NoFile
    THEN [result |-> Reraise("FileNotFoundError"), iolog |-> <<"open">>, failed |-> 1]
    ELSE IF fault # 0
    THEN [result |-> Reraise("OSError"), iolog |-> SubSeq(LoadCalls, 1, fault),
          failed |-> fault]
    ELSE [result |-> whole,
          iolog |-> IF whole.raised = "None"
                    THEN LoadCalls ELSE SubSeq(LoadCalls, 1, 3),
          failed |-> 0]

load_with_metadata_io(f, fault) ==
    load_file_failing(f, fault, load_with_metadata(f))

(* AudioStream.save_compressed_to_stream: no handler, the error of the     *)
(* write leaves the call as it is.                                         *)
save_compressed_to_stream_io(compressed_data, metadata, s, fault, part) ==
    LET chunks == SaveChunks(compressed_data, metadata)
    IN  IF fault = 0
        THEN [stream |-> save_compressed_to_stream(compressed_data, metadata, s),
              result |-> Returned(<<>>), iolog |-> Tail(SaveCalls)]
        ELSE [stream |-> WriteAll(s, WrittenBefore(chunks, fault, part)),
              result |-> Raised("OSError"), iolog |-> SubSeq(Tail(SaveCalls), 1, fault)]

(* AudioStream.load_compressed_from_stream: the reads before the failing   *)
(* one moved the position.                                                 *)
(* whole is what the load returns or raises when no read fails.            *)
load_stream_failing(s, fault, whole) ==
    LET size == StreamRead(s, 4)
        json == StreamRead(size.stream, SizeOf(size.data))
    IN  IF fault = 0
        THEN [stream |-> whole.stream, result |-> whole.result,
              iolog |-> IF Len(size.data) # 4 THEN <<"read">>
                        ELSE IF whole.result.raised # "None" THEN <<"read", "read">>
                        ELSE Tail(LoadCalls)]
        ELSE [stream |-> IF fault = 1 THEN s
                         ELSE IF fault = 2 THEN size.stream ELSE json.stream,
              result |-> Raised("OSError"),
              iolog |-> SubSeq(Tail(LoadCalls), 1, fault)]

load_compressed_from_stream_io(s, fault) ==
    load_stream_failing(s, fault, load_compressed_from_stream(s))

FaultyPayloads == { <<>>, <<255, 123, 34>> }
FaultyMetadata ==
    { Metadata(4, 2, 1, 16000, 16000, <<50, 53, 104, 122>>, <<1, <<5>>>>) }

CanCallFaulty == Len(ops) < MaxFaultyOps

InitFaulty == InitContainer

(* AudioFile.save_with_metadata on a file system that may fail             *)
SaveFileFaulty ==
    /\ sink = "file"
    /\ CanCallFaulty
    /\ \E compressed_data \in FaultyPayloads, metadata \in FaultyMetadata,
          fault \in 0..4, part \in 0..1 :
          LET r == save_with_metadata_io(compressed_data, metadata, file, fault, part)
          IN  /\ file' = r.file
              /\ outcome' = r.result
              /\ iolog' = r.iolog
              /\ failed' = fault
              /\ saved' = IF fault = 0 THEN Append(saved, <<compressed_data, metadata>>)
                          ELSE saved
              /\ wlog' = SaveChunks(compressed_data, metadata)
    /\ ops' = Append(ops, "save")
    /\ UNCHANGED <<sink, stream, loaded, pvars, tvars, notfvars>>

(* AudioFile.load_with_metadata on a file system that may fail             *)
LoadFileFaulty ==
    /\ sink = "file"
    /\ CanCallFaulty
    /\ \E whole \in {load_with_metadata_io(file, 0)} :
        \E fault \in 0..Len(whole.iolog) :
        \E r \in {load_file_failing(file, fault, whole.result)} :
              /\ loaded' = r.result
              /\ iolog' = r.iolog
              /\ failed' = r.failed
    /\ ops' = Append(ops, "load")
    /\ UNCHANGED <<sink, file, stream, saved, wlog, outcome, pvars, tvars, notfvars>>

(* AudioStream.save_compressed_to_stream on a stream that may fail         *)
SaveStreamFaulty ==
    /\ sink = "stream"
    /\ CanCallFaulty
    /\ \E compressed_data \in FaultyPayloads, metadata \in FaultyMetadata,
          fault \in 0..3, part \in 0..1 :
          LET r == save_compressed_to_stream_io(compressed_data, metadata, stream,
                                                fault, part)
          IN  /\ stream' = r.stream
              /\ outcome' = r.result
              /\ iolog' = r.iolog
              /\ failed' = fault
              /\ saved' = IF fault = 0 THEN Append(saved, <<compressed_data, metadata>>)
                          ELSE saved
              /\ wlog' = SaveChunks(compressed_data, metadata)
    /\ ops' = Append(ops, "save")
    /\ UNCHANGED <<sink, file, loaded, pvars, tvars, notfvars>>

(* AudioStream.load_compressed_from_stream on a stream that may fail       *)
LoadStreamFaulty ==
    /\ sink = "stream"
    /\ CanCallFaulty
    /\ \E whole \in {load_compressed_from_stream_io(stream, 0)} :
        \E fault \in 0..Len(whole.iolog) :
        \E r \in {load_stream_failing(stream, fault, whole)} :
              /\ stream' = r.stream
              /\ loaded' = r.result
              /\ iolog' = r.iolog
              /\ failed' = fault
    /\ ops' = Append(ops, "load")
    /\ UNCHANGED <<sink, file, saved, wlog, outcome, pvars, tvars, notfvars>>

(* stream.seek(0)                                                          *)
RewindFaulty ==
    /\ sink = "stream"
    /\ CanCallFaulty
    /\ stream' = [stream EXCEPT !.pos = 0]
    /\ ops' = Append(ops, "rewind")
    /\ UNCHANGED <<sink, file, saved, wlog, loaded, pvars, tvars, nvars>>

NextFaulty ==
    SaveFileFaulty \/ LoadFileFaulty \/ SaveStreamFaulty \/ LoadStreamFaulty
        \/ RewindFaulty

SpecFaulty == InitFaulty /\ [][NextFaulty]_vars

----------------------------------------------------------------------------
(* The packet list of mt_backend: onReceive appends to it, query_packets   *)
(* reads it.  An entry is a Packet object or, after a packet whose         *)
(* processing raised, a dict; seq is the number of the onReceive call that *)
(* appended it (0 or less for the entries the list starts with).  Text is  *)
(* kept as the sequence of its character codes.                            *)

Packet(seq, fromId, portnum) ==
    [kind |-> "Packet", seq |-> seq, fromId |-> fromId, toId |-> <<99>>,
     portnum |-> portnum, payload |-> <<>>, priority |-> <<>>]

(* 'fromId': 'ERROR', 'toId': 'ERROR', 'portnum': 'ERROR', 'priority':     *)
(* 'error'                                                                 *)
ErrorPacket(seq) ==
    [kind |-> "dict", seq |-> seq, fromId |-> <<69, 82, 82, 79, 82>>,
     toId |-> <<69, 82, 82, 79, 82>>, portnum |-> <<69, 82, 82, 79, 82>>,
     payload |-> <<>>, priority |-> <<101, 114, 114, 111, 114>>]

(* Packets from 'a' and from 'B' with portnum 'T', from 'a' with 'P'.      *)
ReceivedSamples == {<<<<97>>, <<84>>>>, <<<<66>>, <<84>>>>, <<<<97>>, <<80>>>>}

(* onReceive(packet, interface): a packet that parses is appended and the  *)
(* list cut back to PacketCap; one whose processing raises before that is  *)
(* appended as an error dict.                                              *)
onReceive(list, seq, parses, fromId, portnum) ==
    IF parses
    THEN LET appended == Append(list, Packet(seq, fromId, portnum))
         IN  IF Len(appended) > PacketCap THEN Tail(appended) ELSE appended
    ELSE Append(list, ErrorPacket(seq))

OnReceive ==
    /\ received < MaxReceives
    /\ \E parses \in BOOLEAN, sample \in ReceivedSamples :
          packet_list' = onReceive(packet_list, received + 1, parses,
                                   sample[1], sample[2])
    /\ received' = received + 1
    /\ UNCHANGED <<query, queried, pvars, cvars, tvars, notkvars>>

(* The list as it is at some point of a session: n packets received before.*)
EarlierPackets(n) == [i \in 1..n |-> Packet(i - n, <<97>>, <<84>>)]

InitFullList ==
    /\ pc = "start"
    /\ codes = NoCodes
    /\ packed = NoValue
    /\ call = NoValue
    /\ result = NoValue
    /\ call2 = NoValue
    /\ result2 = NoValue
    /\ NoSink
    /\ NoCallers
    /\ NoFault
    /\ NoRecorder
    /\ NoTUI
    /\ packet_list \in {EarlierPackets(n) : n \in {0, 1, PacketCap - 1, PacketCap}}
    /\ received = 0
    /\ query = NoValue
    /\ queried = NoValue

NextPackets == OnReceive

SpecPackets == InitFullList /\ [][NextPackets]_vars

----------------------------------------------------------------------------
(* query_packets                                                           *)

(* str.lower() on ASCII text.                                              *)
Lower(text) ==
    [i \in 1..Len(text) |-> IF text[i] >= 65 /\ text[i] <= 90 THEN text[i] + 32
                            ELSE text[i]]

(* q in text                                                               *)
Contains(text, q) ==
    \E i \in 0..(Len(text) - Len(q)) : SubSeq(text, i + 1, i + Len(q)) = q

(* The f-string of matches_substring, with no node known by a name:        *)
(* fromId toId fromId toId portnum payload priority notes, a space between *)
(* them, the payload as repr() prints bytes and the notes None.            *)
search_text(p) ==
    Lower(p.fromId \o <<32>> \o p.toId \o <<32>> \o p.fromId \o <<32>> \o p.toId
          \o <<32>> \o p.portnum \o <<32>> \o (<<98, 39>> \o p.payload \o <<39>>)
          \o <<32>> \o p.priority \o <<32>> \o <<78, 111, 110, 101>>)

matches_substring(p, q) == Contains(search_text(p), Lower(q))

(* A filter argument that is None or empty leaves the list as it is.       *)
NoFilter == <<>>

(* [p for p in filtered_packets if keep(p)]: an attribute of a Packet read *)
(* on a dict raises AttributeError.                                        *)
FilterStep(r, arg, keep(_)) ==
    IF r.raised # "None" \/ arg = NoFilter THEN r
    ELSE IF \E i \in 1..Len(r.value) : r.value[i].kind = "dict"
    THEN Raised("AttributeError")
    ELSE Returned(SelectSeq(r.value, keep))

(* s[-limit:] for limit >= 0: -0 is 0, the slice from the start.           *)
LastSlice(s, limit) ==
    IF limit = 0 THEN s
    ELSE SubSeq(s, IF Len(s) > limit THEN Len(s) - limit + 1 ELSE 1, Len(s))

query_packets(list, q) ==
    LET r1 == FilterStep(Returned(list), q.portnum, LAMBDA p : p.portnum = q.portnum)
        r2 == FilterStep(r1, q.from_id, LAMBDA p : p.fromId = q.from_id)
        r3 == FilterStep(r2, q.to_id, LAMBDA p : p.toId = q.to_id)
        r4 == FilterStep(r3, q.substring,
                         LAMBDA p : matches_substring(p, q.substring) # q.exclude)
    IN  IF r4.raised # "None" THEN r4 ELSE Returned(LastSlice(r4.value, q.limit))

(* limit 0 .. MaxLimit; portnum 'T', from_id 'a', to_id 'c', substring 'A' *)
(* and 'p', or none of them.                                               *)
Queries ==
    [limit : 0..MaxLimit, portnum : {NoFilter, <<84>>}, from_id : {NoFilter, <<97>>},
     to_id : {NoFilter, <<99>>}, substring : {NoFilter, <<65>>, <<112>>},
     exclude : BOOLEAN]

(* query_packets(limit, portnum, from_id, to_id, substring, exclude), once *)
(* in a run.                                                               *)
QueryPackets ==
    /\ "none" \in DOMAIN query
    /\ \E q \in Queries :
          /\ query' = [args |-> q, copy |-> packet_list]
          /\ queried' = query_packets(packet_list, q)
    /\ UNCHANGED <<packet_list, received, pvars, cvars, tvars, notkvars>>

InitQuery ==
    /\ Idle
    /\ codes = NoCodes
    /\ call = NoValue

NextQuery == OnReceive \/ QueryPackets

SpecQuery == InitQuery /\ [][NextQuery]_vars

----------------------------------------------------------------------------
(* Vocabulary of the properties of the packer.                             *)

Batches(c) == Len(c)
Steps(c) == Len(c[1])
Width(c) == Len(c[1][1])
RowBits(c) == Steps(c) * Width(c)
Aligned(c) == RowBits(c) % 8 = 0
Ceil8(n) == IF n % 8 = 0 THEN n \div 8 ELSE (n \div 8) + 1
Cells(c) == {<<b, t, k>> : b \in 1..Batches(c), t \in 1..Steps(c), k \in 1..Width(c)}

(* The float unpack_codes is to give for a code value v: +1/sqrt(N) when   *)
(* v > 0 and -1/sqrt(N) otherwise.                                         *)
SignFloat(v, N) == [num |-> IF v > 0 THEN 1 ELSE -1, root |-> N]

SignKept(c, r) ==
    /\ r.raised = "None"
    /\ Len(r.value) = Batches(c)
    /\ \A b \in 1..Batches(c) :
          /\ Len(r.value[b]) = Steps(c)
          /\ \A t \in 1..Steps(c) :
                /\ Len(r.value[b][t]) = Width(c)
                /\ \A k \in 1..Width(c) :
                      r.value[b][t][k] = SignFloat(c[b][t][k], Width(c))

(* Bit `pos` (0 = least significant) of a byte.                            *)
BitAt(byte, pos) == (byte \div Pow2(pos)) % 2

(* Bit i (0-based, most significant first) of a byte string.               *)
StreamBit(data, i) == BitAt(data[(i \div 8) + 1], 7 - (i % 8))

(* C1: for every code array with T*N a multiple of 8, unpacking what       *)
(* pack_codes returned gives +1/sqrt(N) exactly where the code is positive *)
(* and -1/sqrt(N) elsewhere, at every index (b,t,k).                       *)
C1_RoundTripAligned ==
    (pc = "unpacked" /\ Aligned(codes)) => SignKept(codes, result)

C1_Witness ==
    /\ pc = "unpacked"
    /\ Aligned(codes)
    /\ Batches(codes) = 2
    /\ codes[1][1][1] < 0
    /\ codes[2][1][1] > 0
    /\ result.raised = "None"
    /\ result.value[2][1][1].num = 1
    /\ result.value[1][1][1].num = -1

(* C3: with a single batch the round trip reproduces the sign pattern for  *)
(* every T and N, aligned or not: the padding bits of the last byte are    *)
(* dropped and the decoded array has exactly the shape (1,T,N).            *)
C3_RoundTripSingleBatch ==
    (pc = "unpacked" /\ Batches(codes) = 1) => SignKept(codes, result)

C3_Witness ==
    /\ pc = "unpacked"
    /\ Batches(codes) = 1
    /\ ~Aligned(codes)
    /\ Len(packed.packed) * 8 > RowBits(codes)
    /\ codes[1][Steps(codes)][Width(codes)] > 0
    /\ codes[1][1][1] = 0
    /\ SignKept(codes, result)

(* C4: with more than one batch and T*N not a multiple of 8 the decoder    *)
(* reads the packed buffer as one bit stream: decoded bit j is bit j of    *)
(* the buffer, in which every row is followed by its zero padding, so the  *)
(* padding of row 1 is decoded as the first bits of row 2 and a positive   *)
(* first element of row 2 is decoded as negative.                          *)
C4_PaddingLeaks ==
    (pc = "unpacked" /\ Batches(codes) > 1 /\ ~Aligned(codes)) =>
        LET T == Steps(codes)
            N == Width(codes)
            rowlen == 8 * Ceil8(T * N)
            padded(j) ==
                LET r == j \div rowlen
                    o == j % rowlen
                IN  IF o < T * N
                    THEN (IF codes[r + 1][(o \div N) + 1][(o % N) + 1] > 0 THEN 1 ELSE 0)
                    ELSE 0
        IN  /\ result.raised = "None"
            /\ \A c \in Cells(codes) :
                  LET j == ((c[1] - 1) * T + (c[2] - 1)) * N + (c[3] - 1)
                  IN  result.value[c[1]][c[2]][c[3]].num = 2 * padded(j) - 1
            /\ result.value[2][1][1].num = -1

C4_Witness ==
    /\ pc = "unpacked"
    /\ Batches(codes) > 1
    /\ ~Aligned(codes)
    /\ codes[2][1][1] > 0
    /\ result.raised = "None"
    /\ result.value[2][1][1].num = -1
    /\ ~SignKept(codes, result)

(* C5: pack_codes returns exactly B * ceil(T*N/8) bytes, and the bytes of  *)
(* row b, at [b*ceil(T*N/8), (b+1)*ceil(T*N/8)) counting rows from 0, are  *)
(* what packing row b alone gives; B=1, T=10, N=1 gives 2 bytes.           *)
C5_PackedSize ==
    (pc # "start") =>
        LET nb == Ceil8(RowBits(codes))
        IN  /\ Len(packed.packed) = Batches(codes) * nb
            /\ \A b \in 1..Batches(codes) :
                  SubSeq(packed.packed, (b - 1) * nb + 1, b * nb)
                      = pack_codes(<<codes[b]>>).packed
            /\ (Batches(codes) = 1 /\ Steps(codes) = 10 /\ Width(codes) = 1)
                  => Len(packed.packed) = 2

C5_Witness ==
    /\ pc = "packed"
    /\ Batches(codes) = 1
    /\ Steps(codes) = 10
    /\ Width(codes) = 1
    /\ Len(packed.packed) = 2

Canonical(c, pos, nonpos) ==
    [b \in 1..Batches(c) |-> [t \in 1..Steps(c) |-> [k \in 1..Width(c) |->
        IF c[b][t][k] > 0 THEN pos ELSE nonpos]]]

C8_StrictThreshold ==
    (pc # "start") =>
        /\ packed.packed = pack_codes(Canonical(codes, 1, -1)).packed
        /\ packed.packed = pack_codes(Canonical(codes, 1, 0)).packed
        /\ (\A c \in Cells(codes) : codes[c[1]][c[2]][c[3]] <= 0)
              => \A i \in 1..Len(packed.packed) : packed.packed[i] = 0

C8_Witness ==
    /\ pc = "packed"
    /\ \E c \in Cells(codes) : codes[c[1]][c[2]][c[3]] = 0
    /\ \E c \in Cells(codes) : codes[c[1]][c[2]][c[3]] < 0
    /\ \E c \in Cells(codes) : codes[c[1]][c[2]][c[3]] > 0
    /\ packed.packed = pack_codes(Canonical(codes, 1, -1)).packed

(* C9: unpack_codes raises, and returns no array, whenever the data holds  *)
(* fewer than batches*num_valid*n_bits bits.                               *)
ExpectedBits(c) == c.batches * c.num_valid * c.n_bits

C9_ShortDataRaises ==
    /\ (pc # "start" /\ 8 * Len(call.data) < ExpectedBits(call))
          => result = Raised("ValueError")
    /\ (pc = "unpacked_twice" /\ 8 * Len(call2.data) < ExpectedBits(call2))
          => result2 = Raised("ValueError")

C9_Witness ==
    /\ pc = "unpacked"
    /\ Len(call.data) = 1
    /\ ExpectedBits(call) = 16
    /\ result.raised = "ValueError"
    /\ result.value = <<>>

(* C10: the result of unpack_codes depends only on the first               *)
(* batches*num_valid*n_bits bits of the data: two calls with the same      *)
(* shape whose data agree on those bits return the same array, whatever    *)
(* follows them.                                                           *)
SameLeadingBits(d1, d2, n) ==
    /\ 8 * Len(d1) >= n
    /\ 8 * Len(d2) >= n
    /\ \A i \in 0..(n - 1) : StreamBit(d1, i) = StreamBit(d2, i)

C10_ExcessIgnored ==
    (pc = "unpacked_twice" /\ SameLeadingBits(call.data, call2.data, ExpectedBits(call)))
        => (result.raised = "None" /\ result2 = result)

C10_Witness ==
    /\ pc = "unpacked_twice"
    /\ ExpectedBits(call) = 4
    /\ call.data = <<178>>
    /\ call2.data = <<176, 255>>
    /\ result.raised = "None"
    /\ result2 = result

(* C11: unpack_codes returns an array of shape (batches, num_valid,         *)
(* n_bits) whose element (b, t, k) is +1/sqrt(n_bits) when the bit at flat *)
(* index (b*num_valid + t)*n_bits + k of the MSB-first bit stream of the   *)
(* data is 1 and -1/sqrt(n_bits) when it is 0, and holds no other value;   *)
(* the byte 0xB2 with n_bits 1, num_valid 8, batches 1 gives               *)
(* +1, -1, +1, +1, -1, -1, +1, -1.                                         *)
ElementsFromBits(c, r) ==
    /\ Len(r.value) = c.batches
    /\ \A b \in 1..c.batches :
          /\ Len(r.value[b]) = c.num_valid
          /\ \A t \in 1..c.num_valid :
                /\ Len(r.value[b][t]) = c.n_bits
                /\ \A k \in 1..c.n_bits :
                      LET i == ((b - 1) * c.num_valid + (t - 1)) * c.n_bits + (k - 1)
                          e == r.value[b][t][k]
                      IN  /\ e.root = c.n_bits
                          /\ e.num \in {1, -1}
                          /\ e.num = 1 <=> StreamBit(c.data, i) = 1
                          /\ e.num = -1 <=> StreamBit(c.data, i) = 0

C11_UnpackedElements ==
    /\ (pc # "start" /\ result.raised = "None") => ElementsFromBits(call, result)
    /\ (pc = "unpacked_twice" /\ result2.raised = "None")
          => ElementsFromBits(call2, result2)
    /\ (pc # "start" /\ call = [data |-> <<178>>, n_bits |-> 1, num_valid |-> 8,
                                batches |-> 1])
          => /\ result.raised = "None"
             /\ [t \in 1..8 |-> result.value[1][t][1].num]
                    = <<1, -1, 1, 1, -1, -1, 1, -1>>
             /\ \A t \in 1..8 : result.value[1][t][1].root = 1

C11_Witness ==
    /\ pc = "unpacked"
    /\ call = [data |-> <<178>>, n_bits |-> 1, num_valid |-> 8, batches |-> 1]
    /\ result.raised = "None"
    /\ Len(result.value[1]) = 8
    /\ result.value[1][1][1] = [num |-> 1, root |-> 1]
    /\ result.value[1][2][1] = [num |-> -1, root |-> 1]

(* C15: pack_codes raises, and returns no result, for every array whose    *)
(* number of axes is not exactly 3.                                        *)
C15_WrongRankRaises ==
    (pc = "packed" /\ Len(codes.shape) # 3)
        => (packed.raised # "None" /\ packed.value = <<>>)

(* C19: the code array a decode rebuilds depends only on the packed bytes  *)
(* and on n_bits, num_valid and batches: two decodes of the same bytes     *)
(* whose metadata agree on those three give the same array, whatever the   *)
(* sample rates, the config name and the duration say.                     *)
SameShapeFields(m1, m2) ==
    \A i \in 1..3 : DictGet(m1, MetadataKeys[i]) = DictGet(m2, MetadataKeys[i])

C19_DescriptiveFieldsUnused ==
    (pc = "decoded_twice" /\ SameShapeFields(call.metadata, call2.metadata))
        => result2 = result

C19_Witness ==
    /\ pc = "decoded_twice"
    /\ SameShapeFields(call.metadata, call2.metadata)
    /\ \A i \in 4..7 : DictGet(call.metadata, MetadataKeys[i])
                          # DictGet(call2.metadata, MetadataKeys[i])
    /\ result.raised = "None"
    /\ result2 = result

----------------------------------------------------------------------------
(* Vocabulary of the properties of the container.                          *)

LastOp == IF ops = <<>> THEN "none" ELSE ops[Len(ops)]
LastSaved == saved[Len(saved)]

(* b is the four-byte little-endian unsigned integer n: the byte at offset *)
(* i holds the bits 8i .. 8i+7 of n.                                       *)
IsLittleEndian4(b, n) ==
    /\ Len(b) = 4
    /\ b[1] = n % 256
    /\ b[2] = (n \div 256) % 256
    /\ b[3] = (n \div 65536) % 256
    /\ b[4] = n \div 16777216

(* The bytes the last save put into the sink: the whole file, or the part  *)
(* of the stream that ends where that save left the position.              *)
WrittenLength == Len(wlog[1]) + Len(wlog[2]) + Len(wlog[3])
Written ==
    IF sink = "file" THEN file
    ELSE IF LastOp = "create" THEN stream.buf
    ELSE SubSeq(stream.buf, stream.pos - WrittenLength + 1, stream.pos)

(* C2: loading a container that was just saved, and is all the sink holds, *)
(* returns exactly the saved (compressed_data, metadata): from a file      *)
(* (save, load), from a stream (save, rewind, load) and from an in-memory  *)
(* buffer (create_bytes_stream, load).                                     *)
C2_ContainerRoundTrip ==
    /\ (sink = "file" /\ ops = <<"save", "load">>) => loaded = Returned(saved[1])
    /\ (sink = "stream" /\ ops = <<"save", "rewind", "load">>)
          => loaded = Returned(saved[1])
    /\ (sink = "stream" /\ ops = <<"create", "load">>) => loaded = Returned(saved[1])

C2_Witness ==
    /\ sink = "stream"
    /\ ops = <<"save", "rewind", "load">>
    /\ saved[1][1] = <<255, 123, 34>>
    /\ saved[1][2].v[6][2] = PyStr(<<97, 34, 98, 92>>)
    /\ loaded.raised = "None"
    /\ loaded.value[1] = <<255, 123, 34>>
    /\ loaded.value[2] = saved[1][2]

(* C6: a save writes three fields and nothing else: four bytes holding, as *)
(* a little-endian unsigned integer, the length L of the JSON encoding of  *)
(* the metadata; those L bytes; the payload.  4 + L + len(payload) bytes   *)
(* in all, for the file and for the stream.                                *)
C6_WireFormat ==
    (LastOp \in {"save", "create"}) =>
        LET payload == LastSaved[1]
            metadata == LastSaved[2]
            L == Len(Written) - 4 - Len(payload)
        IN  /\ Len(wlog) = 3
            /\ Written = wlog[1] \o wlog[2] \o wlog[3]
            /\ L >= 0
            /\ IsLittleEndian4(SubSeq(Written, 1, 4), L)
            /\ json_loads(SubSeq(Written, 5, 4 + L)) = Returned(metadata)
            /\ SubSeq(Written, 5, 4 + L) = json_dumps(metadata)
            /\ SubSeq(Written, 5 + L, Len(Written)) = payload
            /\ sink = "file" => Len(file) = 4 + Len(json_dumps(metadata)) + Len(payload)
            /\ sink = "stream" => stream.pos <= Len(stream.buf)
            /\ (sink = "stream" /\ LastOp = "save") => stream.pos >= WrittenLength

C6_Witness ==
    /\ sink = "file"
    /\ ops = <<"save">>
    /\ saved[1][1] = <<1, 0, 0, 0>>
    /\ saved[1][2].v[6][2] = PyStr(<<50, 53, 104, 122>>)
    /\ Len(file) > 8
    /\ SubSeq(file, 2, 4) = <<0, 0, 0>>
    /\ file[1] = Len(file) - 8
    /\ file[5] = 123
    /\ SubSeq(file, Len(file) - 3, Len(file)) = <<1, 0, 0, 0>>

----------------------------------------------------------------------------
(* Vocabulary of the properties of a load.                                 *)

(* The bytes the sink holds.                                               *)
Source == IF sink = "file" THEN file ELSE stream.buf

(* The last call was a load that read from offset 0: any load of a file,   *)
(* and a load of a stream that is new or was just rewound.                 *)
LoadedFromStart ==
    /\ LastOp = "load"
    /\ \/ sink = "file"
       \/ Len(ops) = 1
       \/ ops[Len(ops) - 1] \in {"rewind", "create"}

(* The format errors of the code are Python's ValueError and its           *)
(* subclasses json.JSONDecodeError and UnicodeDecodeError; a call that     *)
(* raises returns nothing.                                                 *)
IsFormatError(r) ==
    /\ r.raised \in {"ValueError", "JSONDecodeError", "UnicodeDecodeError"}
    /\ r.value = <<>>

(* The length the first four bytes of the source declare.                  *)
DeclaredLength == SizeOf(SubSeq(Source, 1, 4))

(* C12: a load of a source of 0, 1, 2 or 3 bytes raises a format error and *)
(* returns no pair, from a file as from a stream.                          *)
C12_ShortSourceRaises ==
    (LoadedFromStart /\ Len(Source) < 4) => IsFormatError(loaded)

C12_Witness ==
    /\ sink = "file"
    /\ ops = <<"load">>
    /\ file = <<2, 0, 123>>
    /\ loaded = Raised("JSONDecodeError")

(* C13: a load of a source whose four-byte prefix declares L and that      *)
(* holds fewer than L bytes after it raises a format error, from a file as *)
(* from a stream, whatever those bytes are.                                *)
C13_ShortMetadataRaises ==
    (LoadedFromStart /\ Len(Source) >= 4 /\ Len(Source) - 4 < DeclaredLength)
        => IsFormatError(loaded)

(* C14: a load returns only a metadata object that has the seven keys with *)
(* values of their types, and raises a format error when the metadata      *)
(* bytes are JSON of another shape.                                        *)
HasField(v, key, type) ==
    \E i \in 1..Len(v.v) : v.v[i][1] = PyStr(key) /\ v.v[i][2].t = type

IsMetadataRecord(v) ==
    /\ v.t = "dict"
    /\ \A i \in 1..5 : HasField(v, MetadataKeys[i], "int")
    /\ HasField(v, MetadataKeys[6], "str")
    /\ HasField(v, MetadataKeys[7], "float")

C14_WrongShapeRejected ==
    LoadedFromStart =>
        /\ loaded.raised = "None" => IsMetadataRecord(loaded.value[2])
        /\ (Len(Source) >= 4 + DeclaredLength
              /\ json_loads(SubSeq(Source, 5, 4 + DeclaredLength)).raised = "None"
              /\ ~IsMetadataRecord(json_loads(SubSeq(Source, 5, 4 + DeclaredLength)).value))
             => IsFormatError(loaded)

(* C16: a load returns as payload every byte of the source after offset    *)
(* 4+L up to the end of the data, (source length - 4 - L) bytes when the   *)
(* source holds the L bytes of metadata; a container followed by more      *)
(* bytes, a second container for one, loads as the first metadata with a   *)
(* payload that goes on through all of them.                               *)
IsPrefix(p, q) == Len(p) <= Len(q) /\ SubSeq(q, 1, Len(p)) = p

C16_PayloadToEnd ==
    (LoadedFromStart /\ loaded.raised = "None") =>
        /\ loaded.value[1] = SubSeq(Source, 5 + DeclaredLength, Len(Source))
        /\ Len(Source) >= 4 + DeclaredLength
              => Len(loaded.value[1]) = Len(Source) - 4 - DeclaredLength
        /\ \A p \in PayloadSamples, m \in MetadataSamples :
              IsPrefix(Flatten(SaveChunks(p, m)), Source)
                 => /\ loaded.value[2] = m
                    /\ IsPrefix(p, loaded.value[1])
                    /\ Len(loaded.value[1])
                          = Len(Source) - Len(Flatten(SaveChunks(p, m))) + Len(p)

C16_Witness ==
    /\ sink = "stream"
    /\ ops = <<"load">>
    /\ \E m \in MetadataSamples, n \in MetadataSamples :
          /\ stream.buf = Flatten(SaveChunks(<<1, 0, 0, 0>>, m))
                             \o Flatten(SaveChunks(<<255, 123, 34>>, n))
          /\ loaded = Returned(<<<<1, 0, 0, 0>> \o Flatten(SaveChunks(<<255, 123, 34>>, n)),
                                 m>>)
    /\ stream.pos = Len(stream.buf)

(* C17: save_compressed_to_stream writes the container at the position p   *)
(* the stream is at: the bytes before p stay, the container takes          *)
(* [p, p + 4 + L + len(payload)), and the position ends up right after it. *)
(* create_bytes_stream leaves its stream holding the container alone and   *)
(* rewound to 0, so that a load right after it returns the saved pair.     *)
ContainerOf(pair) == Flatten(SaveChunks(pair[1], pair[2]))

SaveAtPosition ==
    LET p == stream.pos
        c == ContainerOf(saved'[Len(saved')])
    IN  /\ SubSeq(stream'.buf, 1, p) = SubSeq(stream.buf, 1, p)
        /\ Len(stream'.buf) >= p + Len(c)
        /\ SubSeq(stream'.buf, p + 1, p + Len(c)) = c
        /\ stream'.pos = p + Len(c)

C17_SaveAtPosition ==
    [][ /\ (sink = "stream" /\ ops' = Append(ops, "save")) => SaveAtPosition
        /\ (ops' = <<"create">>)
              => (stream'.pos = 0 /\ stream'.buf = ContainerOf(saved'[1]))
        /\ (ops = <<"create">> /\ ops' = <<"create", "load">>)
              => loaded' = Returned(saved[1]) ]_vars

C17_Witness ==
    /\ sink = "stream"
    /\ ops = <<"save", "save">>
    /\ saved[1][1] = <<1, 0, 0, 0>>
    /\ stream.buf = ContainerOf(saved[1]) \o ContainerOf(saved[2])
    /\ stream.pos = Len(stream.buf)

(* C18: a save creates or truncates the file: after any sequence of saves  *)
(* to the path the file is the container of the last one, with no byte of  *)
(* an earlier, longer container behind it, and a load returns exactly the  *)
(* last saved pair.                                                        *)
C18_FileTruncated ==
    (sink = "file" /\ saved # <<>>) =>
        /\ file = ContainerOf(LastSaved)
        /\ LastOp = "load" => loaded = Returned(LastSaved)

C18_Witness ==
    /\ sink = "file"
    /\ ops = <<"save", "save", "load">>
    /\ Len(ContainerOf(saved[1])) > Len(ContainerOf(saved[2]))
    /\ Len(file) = Len(ContainerOf(saved[2]))
    /\ loaded = Returned(saved[2])

----------------------------------------------------------------------------
(* C20: pack_codes, unpack_codes and the stream save and load share no     *)
(* mutable state: with independent callers running them at once, each on   *)
(* its own array and its own stream, every interleaving of their steps     *)
(* leaves each caller with what the calls give when it runs alone.         *)
AloneIsDone(f) ==
    LET p == pack_codes(f.codes)
        s == create_bytes_stream(p.packed, CallerMetadata(p))
        l == load_compressed_from_stream(s)
    IN  /\ f.ret = p
        /\ f.stream = l.stream
        /\ f.loaded = l.result
        /\ f.loaded = Returned(<<p.packed, CallerMetadata(p)>>)
        /\ f.result = unpack_codes(p.packed, p.n_bits, p.num_valid, p.batches)

C20_CallersIndependent ==
    \A c \in DOMAIN frames :
        /\ frames[c].pc \notin {"pack78", "pack81", "pack87", "pack90"}
              => frames[c].ret = pack_codes(frames[c].codes)
        /\ frames[c].pc = "done" => AloneIsDone(frames[c])

C20_Witness ==
    /\ DOMAIN frames = Callers
    /\ frames[1].codes # frames[2].codes
    /\ frames[1].pc = "load466"
    /\ frames[2].pc = "done"
    /\ AloneIsDone(frames[2])
    /\ frames[2].result.raised = "None"

(* C21: the file and the stream hold one wire format: the bytes a save     *)
(* leaves in a file are the bytes a save of the same pair writes to an     *)
(* empty stream, and what either saver wrote either loader reads back to   *)
(* the saved pair.                                                         *)
EmptyStream == [buf |-> <<>>, pos |-> 0]

C21_OneWireFormat ==
    /\ (sink = "file" /\ LastOp = "save") =>
          /\ file = save_compressed_to_stream(LastSaved[1], LastSaved[2], EmptyStream).buf
          /\ load_compressed_from_stream([buf |-> file, pos |-> 0]).result
                = Returned(LastSaved)
          /\ load_with_metadata(file) = Returned(LastSaved)
    /\ (sink = "stream" /\ ops \in {<<"save">>, <<"create">>}) =>
          /\ stream.buf = save_with_metadata(saved[1][1], saved[1][2])
          /\ load_with_metadata(stream.buf) = Returned(saved[1])
          /\ load_compressed_from_stream([stream EXCEPT !.pos = 0]).result
                = Returned(saved[1])

C21_Witness ==
    /\ sink = "file"
    /\ ops = <<"save">>
    /\ saved[1][1] = <<255, 123, 34>>
    /\ file = save_compressed_to_stream(saved[1][1], saved[1][2], EmptyStream).buf
    /\ load_compressed_from_stream([buf |-> file, pos |-> 0]).result = Returned(saved[1])

----------------------------------------------------------------------------
(* C22: a failure of the sink or the source during a save or a load comes  *)
(* back to the caller as an error of that same call: the call raises,      *)
(* returns nothing, and makes no further call on the sink (no retry).      *)
IsIOError(r) ==
    /\ r.raised \in {"OSError", "FileNotFoundError"}
    /\ r.value = <<>>

C22_FailureSurfaced ==
    (failed # 0 /\ LastOp \in {"save", "load"}) =>
        /\ Len(iolog) = failed
        /\ LastOp = "save" => IsIOError(outcome)
        /\ LastOp = "load" => IsIOError(loaded)

C22_Witness ==
    /\ sink = "file"
    /\ ops = <<"save", "save">>
    /\ Len(saved) = 1
    /\ failed = 3
    /\ iolog = <<"open", "write", "write">>
    /\ outcome = Raised("OSError")
    /\ Len(file) \in {4, 5}

----------------------------------------------------------------------------
(* C23: the packet list keeps only the last 1000 packets: after any        *)
(* onReceive calls, of packets that parse and of packets whose processing  *)
(* raises, on a list of at most 1000 entries, the list holds at most 1000  *)
(* entries, and they are the latest ones in the order they came.           *)
C23_PacketListCapped ==
    /\ Len(packet_list) <= PacketCap
    /\ \A i \in 1..(Len(packet_list) - 1) :
          packet_list[i + 1].seq = packet_list[i].seq + 1
    /\ (received > 0 /\ packet_list # <<>>)
          => packet_list[Len(packet_list)].seq = received

(* C24: query_packets returns the last limit packets that pass the         *)
(* filters: for every limit >= 0 at most limit of them, the most recent    *)
(* ones, in the order they have in packet_list.                            *)
PassesFilters(p, q) ==
    /\ q.portnum # NoFilter => p.portnum = q.portnum
    /\ q.from_id # NoFilter => p.fromId = q.from_id
    /\ q.to_id # NoFilter => p.toId = q.to_id
    /\ q.substring # NoFilter => (matches_substring(p, q.substring) # q.exclude)

C24_LastLimitMatching ==
    ("args" \in DOMAIN query) =>
        LET q == query.args
            matching == SelectSeq(query.copy, LAMBDA p : PassesFilters(p, q))
            n == Min(q.limit, Len(matching))
        IN  /\ queried.raised = "None"
            /\ Len(queried.value) <= q.limit
            /\ queried.value = SubSeq(matching, Len(matching) - n + 1, Len(matching))

----------------------------------------------------------------------------
(* MicrophoneRecorder (src/audio.py).  The main thread makes the calls     *)
(* start_recording, pause_recording, stop_recording and clear_buffer one   *)
(* after the other; each worker thread runs _record_worker, one statement  *)
(* of its loop at a time.  The k-th chunk the microphone delivers is the   *)
(* one byte k, so the bytes of a recording tell the capture order.         *)

MaxCalls == 4
MaxChunks == 3
DefaultDevices == {NoDevice, 0}

(* b''.join(chunks).                                                       *)
RECURSIVE JoinBytes(_)
JoinBytes(chunks) ==
    IF chunks = <<>> THEN <<>>
    ELSE Head(chunks) \o JoinBytes(Tail(chunks))

(* The chunk stream.read returns for the k-th capture.                     *)
Chunk(k) == <<k>>

(* start_recording from line 172 on, for a recorder that is not recording. *)
(* default is the index get_default_input_device finds, or NoDevice;       *)
(* opens tells whether audio.open succeeds; sid and tid are the numbers    *)
(* the new stream and the new thread would get.  Returns the recorder, the *)
(* value returned, and the stream and the thread it created, if any.       *)
open_stream(r, default, opens, sid, tid) ==
    IF r.selected_device_index = NoDevice /\ default = NoDevice
    THEN [recorder |-> r, ret |-> "False", opened |-> NoStream, started |-> NoThread]
    ELSE LET dev == IF r.selected_device_index = NoDevice THEN default
                    ELSE r.selected_device_index
             selected == [r EXCEPT !.selected_device_index = dev]
         IN  IF ~opens
             THEN [recorder |-> [selected EXCEPT !.is_recording = FALSE,
                                                 !.stream = NoStream],
                   ret |-> "False", opened |-> NoStream, started |-> NoThread]
             ELSE [recorder |-> [selected EXCEPT
                                    !.stream = sid,
                                    !.is_recording = TRUE,
                                    !.record_thread =
                                        IF @ = NoThread THEN tid ELSE @],
                   ret |-> "True", opened |-> sid,
                   started |-> IF r.record_thread = NoThread THEN tid ELSE NoThread]

(* A start_recording that does not look at is_recording.                   *)
start_recording_again(r, default, opens, sid, tid) ==
    open_stream(r, default, opens, sid, tid)

start_recording(r, default, opens, sid, tid) ==
    IF r.is_recording
    THEN [recorder |-> r, ret |-> "False", opened |-> NoStream, started |-> NoThread]
    ELSE open_stream(r, default, opens, sid, tid)

(* stop_recording on a recorder that is not recording: lines 243-245.      *)
stop_when_idle(r) ==
    [recorder |-> r, ret |-> "None", bytes |-> <<>>]

(* stop_recording from line 252 on, after the join has returned.           *)
stop_after_join(r, clear_buffer) ==
    LET closed == [r EXCEPT !.record_thread = NoThread, !.stream = NoStream]
    IN  IF r.audio_data # <<>>
        THEN [recorder |-> [closed EXCEPT !.audio_data =
                                IF clear_buffer THEN <<>> ELSE @],
              ret |-> "bytes", bytes |-> JoinBytes(r.audio_data)]
        ELSE [recorder |-> closed, ret |-> "None", bytes |-> <<>>]

(* What the handlers of the TUI do with the value a recorder call returns: *)
(* toggle_recording keeps the audio pause_recording returned (src/gui.py   *)
(* 1025-1028), reset_recording resets the session (1083-1086) and leaves   *)
(* the encoding fields as they are.                                        *)
toggle_paused(t, ret, bytes) ==
    [t EXCEPT !.last_recorded_audio = IF ret = "bytes" /\ bytes # <<>>
                                      THEN bytes ELSE @,
              !.last = "toggle_recording"]

reset_done(t) ==
    [t EXCEPT !.is_paused = FALSE,
              !.last_recorded_audio = NoBytes,
              !.last = "reset_recording"]

AfterStop(handler, t, ret, bytes) ==
    CASE handler = "toggle_recording" -> toggle_paused(t, ret, bytes)
      [] handler = "reset_recording" -> reset_done(t)
      [] OTHER -> t

(* The main thread after a call that returned at once.  was_recording and  *)
(* changed record what the call found and whether it changed the recorder, *)
(* the threads or the streams.                                             *)
ReturnedAtOnce(op, ret, bytes, changed) ==
    [main EXCEPT !.pc = "idle", !.op = op, !.ret = ret, !.bytes = bytes,
                 !.handler = "none", !.calls = @ + 1, !.timed_out = FALSE,
                 !.was_recording = recorder.is_recording,
                 !.changed = changed]

NewThread(sid) == [at |-> "test", stream |-> NoStream, chunk |-> 0]

(* The effect of start_recording on the recorder r, the threads and the    *)
(* streams, for the inputs default and opens.                              *)
Start(r, default, opens) ==
    LET sid == mic.opened + 1
        tid == Len(threads) + 1
        s == start_recording(r, default, opens, sid, tid)
    IN  /\ recorder' = s.recorder
        /\ threads' = IF s.started # NoThread
                      THEN Append(threads, NewThread(sid)) ELSE threads
        /\ mic' = IF s.opened # NoStream THEN [mic EXCEPT !.opened = sid] ELSE mic
        /\ main' = ReturnedAtOnce("start_recording", s.ret, <<>>,
                <<recorder', threads', mic'>> # <<recorder, threads, mic>>)

(* start_recording(), called by the main thread.                           *)
StartRecording ==
    /\ main.pc = "idle"
    /\ main.calls < MaxCalls
    /\ \E default \in DefaultDevices, opens \in BOOLEAN :
            Start(recorder, default, opens)
    /\ UNCHANGED <<uvars, pvars, cvars, tvars, notrvars>>

(* stop_recording(clear_buffer) up to the join of line 251; pause_recording*)
(* is stop_recording(clear_buffer=False).  A recorder that is not recording*)
(* returns None at once.                                                   *)
StopBegin(clear_buffer, handler) ==
    IF ~recorder.is_recording
    THEN LET s == stop_when_idle(recorder)
         IN  /\ recorder' = s.recorder
             /\ main' = [ReturnedAtOnce("stop_recording", s.ret, s.bytes,
                                        recorder' # recorder)
                            EXCEPT !.clear_buffer = clear_buffer]
    ELSE /\ recorder' = [recorder EXCEPT !.is_recording = FALSE]
         /\ main' = [main EXCEPT !.pc = "join", !.op = "stop_recording",
                                 !.clear_buffer = clear_buffer,
                                 !.handler = handler,
                                 !.was_recording = TRUE,
                                 !.changed = TRUE]

StopRecording ==
    /\ main.pc = "idle"
    /\ main.calls < MaxCalls
    /\ \E clear_buffer \in BOOLEAN : StopBegin(clear_buffer, "none")
    /\ UNCHANGED <<threads, mic, uvars, pvars, cvars, tvars, notrvars>>

(* The join of line 251 returns, because the worker has ended or because   *)
(* two seconds have passed, and stop_recording runs to its end: the stream *)
(* is closed, the chunks are joined and, on request, the buffer cleared.   *)
(* The handler of the TUI that made the call then runs to its end too.     *)
Join ==
    /\ main.pc = "join"
    /\ LET t == recorder.record_thread
           s == stop_after_join(recorder, main.clear_buffer)
       IN  /\ recorder' = s.recorder
           /\ mic' = [mic EXCEPT
                        !.closed = IF recorder.stream # NoStream
                                   THEN @ \cup {recorder.stream} ELSE @,
                        !.since = IF main.clear_buffer THEN <<>> ELSE @]
           /\ main' = [main EXCEPT !.pc = "idle", !.ret = s.ret,
                          !.bytes = s.bytes, !.calls = @ + 1,
                          !.expected = mic.since,
                          !.timed_out = (t # NoThread /\ threads[t].at # "ended")]
           /\ tui' = AfterStop(main.handler, tui, s.ret, s.bytes)
    /\ UNCHANGED <<threads, acted, pvars, cvars, tvars, notrvars>>

(* clear_buffer(), called by the main thread.  The program calls it only   *)
(* on a recorder that is not recording (reset_recording, src/gui.py        *)
(* 1068-1071).                                                             *)
ClearBuffer ==
    /\ main.pc = "idle"
    /\ ~recorder.is_recording
    /\ main.calls < MaxCalls
    /\ recorder' = [recorder EXCEPT !.audio_data = <<>>]
    /\ mic' = [mic EXCEPT !.since = <<>>]
    /\ main' = ReturnedAtOnce("clear_buffer", "None", <<>>,
                               recorder' # recorder)
    /\ UNCHANGED <<threads, uvars, pvars, cvars, tvars, notrvars>>

(* One statement of _record_worker in thread i.  The loop test of line 210 *)
(* either ends the thread or takes the stream to read from.                *)
WorkerTest(i) ==
    /\ threads[i].at = "test"
    /\ threads' = [threads EXCEPT ![i] =
            IF recorder.is_recording /\ recorder.stream # NoStream
            THEN [@ EXCEPT !.at = "read", !.stream = recorder.stream]
            ELSE [@ EXCEPT !.at = "ended"]]
    /\ UNCHANGED <<recorder, mic, main, uvars, pvars, cvars, tvars, notrvars>>

(* stream.read of line 213 returns the next chunk or raises, which ends    *)
(* the loop (220-222).  A read of a stream that stop_recording has closed  *)
(* in the meantime may do either.                                          *)
WorkerRead(i) ==
    /\ threads[i].at = "read"
    /\ \E raises \in BOOLEAN :
        IF raises
        THEN /\ threads' = [threads EXCEPT ![i].at = "ended"]
             /\ UNCHANGED mic
        ELSE /\ mic.captured < MaxChunks
             /\ threads' = [threads EXCEPT ![i].at = "append",
                                           ![i].chunk = mic.captured + 1]
             /\ mic' = [mic EXCEPT !.captured = @ + 1,
                                   !.since = Append(@, mic.captured + 1)]
    /\ UNCHANGED <<recorder, main, uvars, pvars, cvars, tvars, notrvars>>

(* self.audio_data.append(audio_chunk), line 214.                          *)
WorkerAppend(i) ==
    /\ threads[i].at = "append"
    /\ recorder' = [recorder EXCEPT
                        !.audio_data = Append(@, Chunk(threads[i].chunk))]
    /\ threads' = [threads EXCEPT ![i].at = "test"]
    /\ UNCHANGED <<mic, main, uvars, pvars, cvars, tvars, notrvars>>

Worker ==
    \E i \in 1..Len(threads) : WorkerTest(i) \/ WorkerRead(i) \/ WorkerAppend(i)

InitRecorder ==
    /\ Idle
    /\ codes = NoCodes
    /\ call = NoValue

NextRecorder ==
    \/ StartRecording
    \/ StopRecording
    \/ Join
    \/ ClearBuffer
    \/ Worker

SpecRecorder == InitRecorder /\ [][NextRecorder]_vars

----------------------------------------------------------------------------
(* C25: start_recording called while is_recording is already True returns *)
(* False and changes nothing: the open stream, the worker thread, the      *)
(* selected device and the buffer audio_data are left as they were; and    *)
(* stop_recording called while not recording returns None and leaves the   *)
(* buffer unchanged.                                                       *)
C25_RejectedCallsChangeNothing ==
    /\ (main.pc = "idle" /\ main.op = "start_recording" /\ main.was_recording)
            => (main.ret = "False" /\ ~main.changed)
    /\ (main.pc = "idle" /\ main.op = "stop_recording" /\ ~main.was_recording)
            => (main.ret = "None" /\ ~main.changed)

(* start_recording was called on a recorder that was recording, with a     *)
(* worker alive and a chunk already in the buffer.                         *)
C25_Witness ==
    /\ main.pc = "idle"
    /\ main.op = "start_recording"
    /\ main.was_recording
    /\ recorder.audio_data # <<>>
    /\ recorder.record_thread # NoThread
    /\ threads[recorder.record_thread].at # "ended"

----------------------------------------------------------------------------
(* Vocabulary of the claims about recordings.                              *)

(* A stop_recording or pause_recording call on a recording recorder has    *)
(* returned and no call was made since.                                    *)
StopReturned ==
    /\ main.pc = "idle"
    /\ main.op = "stop_recording"
    /\ main.was_recording

(* The bytes of the chunks numbered ks, in that order.                     *)
BytesOf(ks) == JoinBytes([i \in 1..Len(ks) |-> Chunk(ks[i])])

(* C26: across start_recording, pause_recording, start_recording, ...,     *)
(* stop_recording, the bytes a stop or pause returns are the concatenation,*)
(* in capture order, of every chunk read since the buffer was last         *)
(* cleared; pause_recording keeps them in the buffer, stop_recording       *)
(* empties the buffer, so that a later recording starts from nothing.      *)
C26_StopReturnsAllChunks ==
    StopReturned =>
        /\ main.bytes = BytesOf(main.expected)
        /\ (main.ret = "None") = (main.expected = <<>>)
        /\ recorder.audio_data = IF main.clear_buffer THEN <<>>
                                 ELSE [i \in 1..Len(main.expected) |->
                                            Chunk(main.expected[i])]

(* The worker threads that have not ended: each can still read from a      *)
(* stream and append to audio_data.                                        *)
LiveWorkers == {i \in 1..Len(threads) : threads[i].at # "ended"}

(* C29: at most one recording worker thread appends to audio_data at any   *)
(* time: under every interleaving of the main thread's calls, whose join   *)
(* may time out, with the worker loop, a new worker is never started       *)
(* while an earlier worker can still read and append.                      *)
C29_SingleWorker == Cardinality(LiveWorkers) <= 1

----------------------------------------------------------------------------
(* AudioCodec.encode_audio and decode_audio from the codes on: the codes   *)
(* the tokenizer produced are packed and described by a metadata dict, and *)
(* decode_audio unpacks the bytes by that dict.                            *)

(* What encode_audio returns for the codes c and the descriptive fields r: *)
(* (len(packed_data), packed_data.tobytes(), metadata).                    *)
encode_audio(c, r) ==
    LET p == pack_codes(c)
    IN  [compressed_size |-> Len(p.packed),
         compressed_data |-> p.packed,
         metadata |-> Metadata(p.n_bits, p.num_valid, p.batches,
                               r[1], r[2], r[3], r[4])]

InitEncode ==
    /\ Idle
    /\ codes \in CodeArrays
    /\ call = NoValue

(* compressed_size, compressed_data, metadata = codec.encode_audio(...)    *)
EncodeAudio ==
    /\ pc = "start"
    /\ codes # NoCodes
    /\ \E r \in Descriptions : call' = encode_audio(codes, r)
    /\ pc' = "encoded"
    /\ UNCHANGED <<codes, packed, result, call2, result2, cvars, tvars, nvars>>

(* codec.decode_audio(compressed_data, metadata) on what encode_audio      *)
(* returned.                                                               *)
DecodeAudio ==
    /\ pc = "encoded"
    /\ result' = decode_codes(call.compressed_data, call.metadata)
    /\ pc' = "decoded"
    /\ UNCHANGED <<codes, packed, call, call2, result2, cvars, tvars, nvars>>

NextEncode == EncodeAudio \/ DecodeAudio

SpecEncode == InitEncode /\ [][NextEncode]_vars

(* C27: the output of pack_codes satisfies the precondition of             *)
(* unpack_codes: for codes of shape (B,T,N), len(packed) * 8 >= B*T*N, so  *)
(* decode_audio on what encode_audio returned never fails for lack of      *)
(* bits; and the compressed_size encode_audio returns is                   *)
(* len(compressed_data).                                                   *)
C27_EncodedHasEnoughBits ==
    /\ (pc \in {"encoded", "decoded"}) =>
            /\ 8 * Len(call.compressed_data)
                    >= Len(codes) * Len(codes[1]) * Len(codes[1][1])
            /\ call.compressed_size = Len(call.compressed_data)
    /\ (pc = "decoded") => result.raised = "None"

(* Two batches of 3 bits each were encoded and decoded: each row ends in   *)
(* a padded byte.                                                          *)
C27_Witness ==
    /\ pc = "decoded"
    /\ Len(codes) = 2
    /\ Len(codes[1]) * Len(codes[1][1]) = 3
    /\ call.compressed_size = 2
    /\ result.raised = "None"

----------------------------------------------------------------------------
(* Packing what unpack_codes returned.                                     *)

(* The array unpack_codes returned as pack_codes compares it with zero:    *)
(* num / sqrt(root) > 0 exactly when num > 0.                              *)
Numerators(arr) ==
    [b \in 1..Len(arr) |-> [t \in 1..Len(arr[b]) |-> [k \in 1..Len(arr[b][t]) |->
        arr[b][t][k].num]]]

(* BitPacker.pack_codes(BitPacker.unpack_codes(packed, N, T, B))           *)
Repack ==
    /\ pc = "unpacked"
    /\ result.raised = "None"
    /\ result2' = pack_codes(Numerators(result.value))
    /\ pc' = "repacked"
    /\ UNCHANGED <<codes, packed, call, result, call2, cvars, tvars, nvars>>

NextRepack == Pack \/ Unpack \/ Repack

SpecRepack == InitWide /\ [][NextRepack]_vars

(* C28: re-packing is stable: for codes of shape (B,T,N) with B = 1 or     *)
(* T*N a multiple of 8, packing what unpack_codes made of the packed bytes *)
(* returns the same packed bytes and the same n_bits, num_valid and        *)
(* batches as packing the codes.                                           *)
C28_RepackStable ==
    /\ (pc = "unpacked" /\ (Batches(codes) = 1 \/ Aligned(codes)))
            => result.raised = "None"
    /\ (pc = "repacked" /\ (Batches(codes) = 1 \/ Aligned(codes)))
            => result2 = packed

(* A single row of bits that ends inside a byte, a one among them, was     *)
(* packed, unpacked and packed again.                                      *)
C28_Witness ==
    /\ pc = "repacked"
    /\ Batches(codes) = 1
    /\ ~Aligned(codes)
    /\ codes[1][1][1] > 0
    /\ packed.packed # <<0>>
    /\ result2.packed = packed.packed

----------------------------------------------------------------------------
(* The voice session of MeshtasticTUI (src/gui.py): the handlers of the    *)
(* record, reset, codec, encode, send and preview controls, run by the     *)
(* main thread one after the other on the recorder above.  The encoder is  *)
(* a trained network: what it makes of the audio a with the codec c is     *)
(* kept as the pair [audio |-> a, codec |-> c].                            *)

MaxHandlers == 5
CodecTypes == {"12_5hz", "25hz"}

(* select_device(input_select.value) of lines 986-988; the value may be    *)
(* None.                                                                   *)
select_device(r, chosen) ==
    IF chosen = NoDevice THEN r ELSE [r EXCEPT !.selected_device_index = chosen]

(* The main thread after a handler that made no recorder call.             *)
Handled == [main EXCEPT !.calls = @ + 1]

(* toggle_recording: the record button starts, pauses or resumes.          *)
ToggleRecording ==
    /\ main.pc = "idle"
    /\ main.calls < MaxHandlers
    /\ IF ~recorder.is_recording /\ ~tui.is_paused
       THEN /\ \E chosen \in DefaultDevices, default \in DefaultDevices,
                  opens \in BOOLEAN :
                    Start(select_device(recorder, chosen), default, opens)
            /\ tui' = [tui EXCEPT !.last = "toggle_recording"]
       ELSE IF recorder.is_recording /\ ~tui.is_paused
       THEN /\ StopBegin(FALSE, "toggle_recording")
            /\ tui' = [tui EXCEPT !.is_paused = TRUE]
            /\ UNCHANGED <<threads, mic>>
       ELSE /\ \E default \in DefaultDevices, opens \in BOOLEAN :
                    Start(recorder, default, opens)
            /\ tui' = [tui EXCEPT !.is_paused = FALSE,
                                  !.last = "toggle_recording"]
    /\ UNCHANGED <<acted, pvars, cvars, tvars, notrvars>>

(* reset_recording: stops or clears the recorder, then resets the session. *)
ResetRecording ==
    /\ main.pc = "idle"
    /\ main.calls < MaxHandlers
    /\ IF recorder.is_recording
       THEN /\ StopBegin(TRUE, "reset_recording")
            /\ UNCHANGED <<threads, mic, tui>>
       ELSE /\ recorder' = [recorder EXCEPT !.audio_data = <<>>]
            /\ mic' = [mic EXCEPT !.since = <<>>]
            /\ main' = ReturnedAtOnce("clear_buffer", "None", <<>>,
                                      recorder' # recorder)
            /\ tui' = reset_done(tui)
            /\ UNCHANGED threads
    /\ UNCHANGED <<acted, pvars, cvars, tvars, notrvars>>

(* change_codec(codec_type): on success the encoding is dropped (1185-     *)
(* 1186); when AudioCodec(codec_type) raises, the codec becomes None.      *)
change_codec(t, codec_type, ok) ==
    IF ok
    THEN [t EXCEPT !.codec = codec_type,
                   !.encoded_audio_data = NoEncoding,
                   !.encoded_metadata = NoEncoding,
                   !.last = "change_codec"]
    ELSE [t EXCEPT !.codec = "None", !.last = "change_codec failed"]

ChangeCodec ==
    /\ main.pc = "idle"
    /\ main.calls < MaxHandlers
    /\ \E codec_type \in CodecTypes, ok \in BOOLEAN :
            tui' = change_codec(tui, codec_type, ok)
    /\ main' = Handled
    /\ UNCHANGED <<recorder, threads, mic, acted, pvars, cvars, tvars, notrvars>>

(* encode_audio of the TUI: nothing without a recording or a codec; the    *)
(* encoding is stored unless the encoder raises.                           *)
tui_encode_audio(t, ok) ==
    IF t.last_recorded_audio = NoBytes \/ t.last_recorded_audio = <<>>
    THEN [t EXCEPT !.last = "encode_audio"]
    ELSE IF t.codec = "None" THEN [t EXCEPT !.last = "encode_audio"]
    ELSE IF ~ok THEN [t EXCEPT !.last = "encode_audio"]
    ELSE LET e == [audio |-> t.last_recorded_audio, codec |-> t.codec]
         IN  [t EXCEPT !.encoded_audio_data = e, !.encoded_metadata = e,
                       !.last = "encode_audio"]

TUIEncodeAudio ==
    /\ main.pc = "idle"
    /\ main.calls < MaxHandlers
    /\ \E ok \in BOOLEAN : tui' = tui_encode_audio(tui, ok)
    /\ main' = Handled
    /\ UNCHANGED <<recorder, threads, mic, acted, pvars, cvars, tvars, notrvars>>

(* What a handler acted on: the encoding it used, beside the recording and *)
(* the codec the session held at that time.                                *)
ActedOn(handler, t) ==
    [handler |-> handler, encoding |-> t.encoded_audio_data,
     audio |-> t.last_recorded_audio, codec |-> t.codec]

(* send_voice_message: nothing without a destination or without encoded    *)
(* data (961-968).                                                         *)
SendVoiceMessage ==
    /\ main.pc = "idle"
    /\ main.calls < MaxHandlers
    /\ \E destination \in BOOLEAN :
        acted' = IF destination /\ tui.encoded_audio_data # NoEncoding
                 THEN ActedOn("send_voice_message", tui)
                 ELSE acted
    /\ tui' = [tui EXCEPT !.last = "send_voice_message"]
    /\ main' = Handled
    /\ UNCHANGED <<recorder, threads, mic, pvars, cvars, tvars, notrvars>>

(* preview_encoded_audio: nothing without encoded data and metadata, or    *)
(* without a codec (1300-1306); else the data is decoded by the codec.     *)
PreviewEncodedAudio ==
    /\ main.pc = "idle"
    /\ main.calls < MaxHandlers
    /\ acted' = IF /\ tui.encoded_audio_data # NoEncoding
                   /\ tui.encoded_metadata # NoEncoding
                   /\ tui.codec # "None"
                THEN ActedOn("preview_encoded_audio", tui)
                ELSE acted
    /\ tui' = [tui EXCEPT !.last = "preview_encoded_audio"]
    /\ main' = Handled
    /\ UNCHANGED <<recorder, threads, mic, pvars, cvars, tvars, notrvars>>

InitTUI ==
    /\ Idle
    /\ codes = NoCodes
    /\ call = NoValue

NextTUI ==
    \/ ToggleRecording
    \/ ResetRecording
    \/ ChangeCodec
    \/ TUIEncodeAudio
    \/ SendVoiceMessage
    \/ PreviewEncodedAudio
    \/ Join
    \/ Worker

SpecTUI == InitTUI /\ [][NextTUI]_vars

(* C30: encoded audio never outlives the recording or codec it was made    *)
(* from: after reset_recording, and after a successful change_codec,       *)
(* encoded_audio_data and encoded_metadata are both None, so that          *)
(* send_voice_message and preview_encoded_audio only act on an encoding of *)
(* the current last_recorded_audio made by the current codec.              *)
C30_EncodingNeverStale ==
    /\ (main.pc = "idle" /\ tui.last \in {"reset_recording", "change_codec"})
            => /\ tui.encoded_audio_data = NoEncoding
               /\ tui.encoded_metadata = NoEncoding
    /\ ("handler" \in DOMAIN acted)
            => /\ acted.encoding.audio = acted.audio
               /\ acted.encoding.codec = acted.codec

=============================================================================
